---- MODULE Spec2Model ----
(***************************************************************************)
(* A model of the sinewave-speech demo's formant-trajectory extraction:    *)
(* the FormantPlayer orchestrator (js/formant-player.js), the meSpeak      *)
(* capture (js/tts-capture.js), the phoneme fallback                       *)
(* (js/phoneme-mapper.js), the LPC analyzer's frame loop and the UI entry  *)
(* points (js/ui-controller.js), run on JavaScript's event loop: a macro   *)
(* task (a UI event, a timer, a load callback) runs only when the promise  *)
(* job queue is empty, and promise jobs run in FIFO order.                 *)
(***************************************************************************)
EXTENDS Integers, Sequences, FiniteSets, TLC

(***************************************************************************)
(* JavaScript Numbers are IEEE-754 doubles.  The values the time axis of a *)
(* trajectory is built from (0.01, 0.02, ..., sums, products and quotients *)
(* of them) are modelled bit for bit: a non-negative double in the range   *)
(* [2^-7, 2^36) is the natural number value * 2^60, held as five base-2^20 *)
(* limbs, least significant first, and every operation rounds its exact    *)
(* result to 53 significant bits, ties to even.                            *)
(***************************************************************************)
LB == 2^20
NL == 4 + 1
FRAC == 3 * 20

RECURSIVE NormFrom(_, _, _)
NormFrom(s, i, c) ==
    IF i > Len(s) THEN <<>>
    ELSE LET v == s[i] + c
         IN  <<v % LB>> \o NormFrom(s, i + 1, v \div LB)

BAdd(a, b) == NormFrom(<<a[1] + b[1], a[2] + b[2], a[3] + b[3], a[4] + b[4], a[5] + b[5]>>, 1, 0)
BSub(a, b) == NormFrom(<<a[1] - b[1], a[2] - b[2], a[3] - b[3], a[4] - b[4], a[5] - b[5]>>, 1, 0)
BMulSmall(a, k) == NormFrom(<<a[1] * k, a[2] * k, a[3] * k, a[4] * k, a[5] * k>>, 1, 0)

RECURSIVE BCmpFrom(_, _, _)
BCmpFrom(a, b, i) ==
    IF i = 0 THEN 0
    ELSE IF a[i] > b[i] THEN 1
    ELSE IF a[i] < b[i] THEN -1
    ELSE BCmpFrom(a, b, i - 1)

BCmp(a, b) == BCmpFrom(a, b, NL)
FLe(a, b) == BCmp(a, b) <= 0
FLt(a, b) == BCmp(a, b) < 0

BZero == <<0, 0, 0, 0, 0>>
Limb(i, k, v) == IF i = k THEN v ELSE 0
Pow2(p) ==
    LET k == (p \div 20) + 1
        v == 2^(p % 20)
    IN  <<Limb(1, k, v), Limb(2, k, v), Limb(3, k, v), Limb(4, k, v), Limb(5, k, v)>>
Bit(a, p) == (a[(p \div 20) + 1] \div 2^(p % 20)) % 2

RECURSIVE IntBitLen(_)
IntBitLen(n) == IF n = 0 THEN 0 ELSE 1 + IntBitLen(n \div 2)

RECURSIVE BitLenFrom(_, _)
BitLenFrom(a, i) ==
    IF i = 0 THEN 0
    ELSE IF a[i] # 0 THEN 20 * (i - 1) + IntBitLen(a[i])
    ELSE BitLenFrom(a, i - 1)

BitLen(a) == BitLenFrom(a, NL)

\* a with its s lowest bits cleared
ClearLimb(a, s, i) ==
    IF i < (s \div 20) + 1 THEN 0
    ELSE IF i = (s \div 20) + 1 THEN a[i] - (a[i] % 2^(s % 20))
    ELSE a[i]
ClearLow(a, s) ==
    <<ClearLimb(a, s, 1), ClearLimb(a, s, 2), ClearLimb(a, s, 3), ClearLimb(a, s, 4),
      ClearLimb(a, s, 5)>>

\* Round to nearest, ties to even, at 53 significant bits; sticky tells that
\* the exact value has non-zero bits below the 2^-60 resolution of a.
Round53(a, sticky) ==
    LET s == BitLen(a) - 53
    IN  IF s <= 0 THEN a
        ELSE LET trunc == ClearLow(a, s)
                 guard == Bit(a, s - 1) = 1
                 rest  == sticky \/ ClearLow(a, s - 1) # a
                 odd   == Bit(a, s) = 1
                 up    == guard /\ (rest \/ odd)
             IN  IF up THEN BAdd(trunc, Pow2(s)) ELSE trunc

FromInt(n) == <<0, 0, 0, n % LB, n \div LB>>

\* The element of a one-element set.  Below, x \in {e} names the value of e,
\* so that e is computed once however often x is read.
The(S) == CHOOSE x \in S : TRUE

FAdd(a, b) == The({Round53(s, FALSE) : s \in {BAdd(x, y) : x \in {a}, y \in {b}}})
FMulInt(a, k) == The({Round53(s, FALSE) : s \in {BMulSmall(x, k) : x \in {a}}})

\* Restoring long division of a * 2^60 by b, most significant bit first:
\* st = <<quotient, remainder>>; DivStep takes in bit p of the numerator.
DivStep(a, b, p, st) ==
    IF p < 0 THEN st
    ELSE The({IF BCmp(r2, b) >= 0
              THEN <<BAdd(BMulSmall(st[1], 2), Pow2(0)), BSub(r2, b)>>
              ELSE <<BMulSmall(st[1], 2), r2>> :
                 r2 \in {BAdd(BMulSmall(st[2], 2),
                              <<IF p >= FRAC THEN Bit(a, p - FRAC) ELSE 0, 0, 0, 0, 0>>)}})

RECURSIVE DivFrom(_, _, _, _)
DivFrom(a, b, p, st) ==
    IF p < 0 THEN st
    ELSE The({DivFrom(a, b, p - 4, s4) :
                 s4 \in {DivStep(a, b, p - 3, s3) :
                 s3 \in {DivStep(a, b, p - 2, s2) :
                 s2 \in {DivStep(a, b, p - 1, s1) :
                 s1 \in {DivStep(a, b, p, st)}}}}})

\* The correctly rounded quotient a / b (b # 0, a / b >= 2^-7).
FDiv(a, b) ==
    The({Round53(st[1], st[2] # BZero) :
            st \in {DivFrom(x, y, BitLen(x) + FRAC - 1, <<BZero, BZero>>) :
                       x \in {a}, y \in {b}}})

\* The double a decimal literal n/d denotes: the double nearest to n/d.
FLit(n, d) == FDiv(FromInt(n), FromInt(d))

FHalf(a) == FDiv(a, FromInt(2))
FIntPart(a) == a[4] + LB * a[5]
FHasFrac(a) == a[1] # 0 \/ a[2] # 0 \/ a[3] # 0
FFloor(a) == FIntPart(a)
FCeil(a) == IF FHasFrac(a) THEN FIntPart(a) + 1 ELSE FIntPart(a)
\* a double of seconds as whole milliseconds, rounded to nearest
FMillis(a) == FIntPart(BAdd(BMulSmall(a, 1000), Pow2(FRAC - 1)))


(***************************************************************************)
(* js/phoneme-mapper.js.  A text is a sequence of one-character strings; a *)
(* word is a sequence of characters too.  Frequencies are whole Hz,        *)
(* amplitudes are thousandths; times and durations are doubles.            *)
(***************************************************************************)
PHONEME_FORMANTS ==
    "IY" :> <<270, 2290, 3010>> @@
    "IH" :> <<390, 1990, 2550>> @@
    "EH" :> <<530, 1840, 2480>> @@
    "AE" :> <<660, 1720, 2410>> @@
    "AA" :> <<730, 1090, 2440>> @@
    "AO" :> <<570, 840, 2410>> @@
    "UH" :> <<440, 1020, 2240>> @@
    "UW" :> <<300, 870, 2240>> @@
    "AH" :> <<640, 1190, 2390>> @@
    "ER" :> <<490, 1350, 1690>> @@
    "EY" :> <<450, 2000, 2600>> @@
    "AY" :> <<750, 1200, 2600>> @@
    "OY" :> <<550, 900, 2500>> @@
    "AW" :> <<750, 1200, 2500>> @@
    "OW" :> <<500, 900, 2500>> @@
    "W" :> <<350, 700, 2400>> @@
    "Y" :> <<300, 2200, 3000>> @@
    "R" :> <<420, 1300, 1600>> @@
    "L" :> <<400, 1100, 2600>> @@
    "M" :> <<300, 1200, 2500>> @@
    "N" :> <<300, 1700, 2500>> @@
    "NG" :> <<350, 2000, 2700>> @@
    "V" :> <<300, 1300, 2400>> @@
    "DH" :> <<350, 1600, 2600>> @@
    "Z" :> <<350, 1800, 2600>> @@
    "ZH" :> <<350, 2000, 2600>> @@
    "B" :> <<350, 1100, 2400>> @@
    "D" :> <<350, 1700, 2600>> @@
    "G" :> <<350, 2000, 2600>> @@
    "JH" :> <<350, 2200, 2800>> @@
    "P" :> <<0, 0, 0>> @@
    "T" :> <<0, 0, 0>> @@
    "K" :> <<0, 0, 0>> @@
    "F" :> <<0, 0, 0>> @@
    "TH" :> <<0, 0, 0>> @@
    "S" :> <<0, 0, 0>> @@
    "SH" :> <<0, 0, 0>> @@
    "CH" :> <<0, 0, 0>> @@
    "HH" :> <<0, 0, 0>> @@
    "SIL" :> <<0, 0, 0>>

LETTER_TO_PHONEME ==
    "a" :> "AE" @@ "e" :> "EH" @@ "i" :> "IH" @@ "o" :> "AA" @@ "u" :> "AH" @@
    "b" :> "B" @@ "c" :> "K" @@ "d" :> "D" @@ "f" :> "F" @@ "g" :> "G" @@
    "h" :> "HH" @@ "j" :> "JH" @@ "k" :> "K" @@ "l" :> "L" @@ "m" :> "M" @@
    "n" :> "N" @@ "p" :> "P" @@ "q" :> "K" @@ "r" :> "R" @@ "s" :> "S" @@
    "t" :> "T" @@ "v" :> "V" @@ "w" :> "W" @@ "x" :> "K" @@ "y" :> "Y" @@
    "z" :> "Z"

DIGRAPH_TO_PHONEME ==
    <<"t", "h">> :> "TH" @@ <<"s", "h">> :> "SH" @@ <<"c", "h">> :> "CH" @@
    <<"n", "g">> :> "NG" @@ <<"w", "h">> :> "W" @@ <<"p", "h">> :> "F" @@
    <<"c", "k">> :> "K" @@ <<"e", "e">> :> "IY" @@ <<"e", "a">> :> "IY" @@
    <<"o", "o">> :> "UW" @@ <<"o", "u">> :> "AW" @@ <<"o", "w">> :> "OW" @@
    <<"o", "i">> :> "OY" @@ <<"o", "y">> :> "OY" @@ <<"a", "i">> :> "EY" @@
    <<"a", "y">> :> "EY" @@ <<"i", "e">> :> "IY" @@ <<"i", "g", "h">> :> "AY" @@
    <<"a", "u">> :> "AO" @@ <<"a", "w">> :> "AO" @@ <<"e", "r">> :> "ER" @@
    <<"i", "r">> :> "ER" @@ <<"u", "r">> :> "ER" @@ <<"o", "r">> :> "AO" @@
    <<"a", "r">> :> "AA"

WORD_PRONUNCIATIONS ==
    <<"t", "h", "e">> :> <<"DH", "AH">> @@
    <<"a">> :> <<"AH">> @@
    <<"a", "n">> :> <<"AE", "N">> @@
    <<"i", "s">> :> <<"IH", "Z">> @@
    <<"a", "r", "e">> :> <<"AA", "R">> @@
    <<"w", "a", "s">> :> <<"W", "AH", "Z">> @@
    <<"w", "e", "r", "e">> :> <<"W", "ER">> @@
    <<"w", "h", "e", "r", "e">> :> <<"W", "EH", "R">> @@
    <<"w", "h", "a", "t">> :> <<"W", "AH", "T">> @@
    <<"w", "h", "e", "n">> :> <<"W", "EH", "N">> @@
    <<"w", "h", "y">> :> <<"W", "AY">> @@
    <<"h", "o", "w">> :> <<"HH", "AW">> @@
    <<"y", "o", "u">> :> <<"Y", "UW">> @@
    <<"y", "o", "u", "r">> :> <<"Y", "AO", "R">> @@
    <<"y", "e", "a", "r">> :> <<"Y", "IH", "R">> @@
    <<"a", "g", "o">> :> <<"AH", "G", "OW">> @@
    <<"t", "o">> :> <<"T", "UW">> @@
    <<"d", "o">> :> <<"D", "UW">> @@
    <<"g", "o">> :> <<"G", "OW">> @@
    <<"n", "o">> :> <<"N", "OW">> @@
    <<"s", "o">> :> <<"S", "OW">> @@
    <<"o", "f">> :> <<"AH", "V">> @@
    <<"f", "o", "r">> :> <<"F", "AO", "R">> @@
    <<"w", "i", "t", "h">> :> <<"W", "IH", "TH">> @@
    <<"t", "h", "i", "s">> :> <<"DH", "IH", "S">> @@
    <<"t", "h", "a", "t">> :> <<"DH", "AE", "T">> @@
    <<"h", "a", "v", "e">> :> <<"HH", "AE", "V">> @@
    <<"h", "a", "s">> :> <<"HH", "AE", "Z">> @@
    <<"h", "a", "d">> :> <<"HH", "AE", "D">> @@
    <<"b", "e">> :> <<"B", "IY">> @@
    <<"b", "e", "e", "n">> :> <<"B", "IH", "N">> @@
    <<"w", "i", "l", "l">> :> <<"W", "IH", "L">> @@
    <<"w", "o", "u", "l", "d">> :> <<"W", "UH", "D">> @@
    <<"c", "o", "u", "l", "d">> :> <<"K", "UH", "D">> @@
    <<"s", "h", "o", "u", "l", "d">> :> <<"SH", "UH", "D">> @@
    <<"c", "a", "n">> :> <<"K", "AE", "N">> @@
    <<"f", "r", "o", "m">> :> <<"F", "R", "AH", "M">> @@
    <<"t", "h", "e", "y">> :> <<"DH", "EY">> @@
    <<"t", "h", "e", "i", "r">> :> <<"DH", "EH", "R">> @@
    <<"t", "h", "e", "r", "e">> :> <<"DH", "EH", "R">> @@
    <<"h", "e", "r", "e">> :> <<"HH", "IH", "R">> @@
    <<"h", "e", "l", "l", "o">> :> <<"HH", "AH", "L", "OW">> @@
    <<"w", "o", "r", "l", "d">> :> <<"W", "ER", "L", "D">> @@
    <<"s", "p", "e", "e", "c", "h">> :> <<"S", "P", "IY", "CH">> @@
    <<"s", "o", "u", "n", "d">> :> <<"S", "AW", "N", "D">> @@
    <<"h", "e", "a", "r">> :> <<"HH", "IH", "R">> @@
    <<"l", "i", "s", "t", "e", "n">> :> <<"L", "IH", "S", "AH", "N">> @@
    <<"v", "o", "i", "c", "e">> :> <<"V", "OY", "S">> @@
    <<"s", "a", "y">> :> <<"S", "EY">> @@
    <<"s", "a", "i", "d">> :> <<"S", "EH", "D">> @@
    <<"w", "o", "r", "d">> :> <<"W", "ER", "D">> @@
    <<"w", "o", "r", "d", "s">> :> <<"W", "ER", "D", "Z">> @@
    <<"o", "n", "e">> :> <<"W", "AH", "N">> @@
    <<"t", "w", "o">> :> <<"T", "UW">> @@
    <<"t", "h", "r", "e", "e">> :> <<"TH", "R", "IY">> @@
    <<"i">> :> <<"AY">> @@
    <<"m", "y">> :> <<"M", "AY">> @@
    <<"m", "e">> :> <<"M", "IY">> @@
    <<"w", "e">> :> <<"W", "IY">> @@
    <<"h", "e">> :> <<"HH", "IY">> @@
    <<"s", "h", "e">> :> <<"SH", "IY">> @@
    <<"i", "t">> :> <<"IH", "T">> @@
    <<"n", "o", "t">> :> <<"N", "AA", "T">> @@
    <<"d", "o", "n", "'", "t">> :> <<"D", "OW", "N", "T">> @@
    <<"k", "n", "o", "w">> :> <<"N", "OW">> @@
    <<"t", "h", "i", "n", "k">> :> <<"TH", "IH", "NG", "K">> @@
    <<"l", "i", "k", "e">> :> <<"L", "AY", "K">> @@
    <<"j", "u", "s", "t">> :> <<"JH", "AH", "S", "T">> @@
    <<"t", "i", "m", "e">> :> <<"T", "AY", "M">> @@
    <<"g", "o", "o", "d">> :> <<"G", "UH", "D">> @@
    <<"n", "e", "w">> :> <<"N", "UW">> @@
    <<"f", "i", "r", "s", "t">> :> <<"F", "ER", "S", "T">> @@
    <<"l", "a", "s", "t">> :> <<"L", "AE", "S", "T">> @@
    <<"l", "o", "n", "g">> :> <<"L", "AO", "NG">> @@
    <<"g", "r", "e", "a", "t">> :> <<"G", "R", "EY", "T">> @@
    <<"l", "i", "t", "t", "l", "e">> :> <<"L", "IH", "T", "AH", "L">> @@
    <<"o", "w", "n">> :> <<"OW", "N">> @@
    <<"o", "t", "h", "e", "r">> :> <<"AH", "DH", "ER">> @@
    <<"o", "l", "d">> :> <<"OW", "L", "D">> @@
    <<"r", "i", "g", "h", "t">> :> <<"R", "AY", "T">> @@
    <<"b", "i", "g">> :> <<"B", "IH", "G">> @@
    <<"h", "i", "g", "h">> :> <<"HH", "AY">> @@
    <<"s", "m", "a", "l", "l">> :> <<"S", "M", "AO", "L">> @@
    <<"n", "e", "x", "t">> :> <<"N", "EH", "K", "S", "T">> @@
    <<"e", "a", "r", "l", "y">> :> <<"ER", "L", "IY">> @@
    <<"y", "o", "u", "n", "g">> :> <<"Y", "AH", "NG">> @@
    <<"f", "e", "w">> :> <<"F", "Y", "UW">> @@
    <<"b", "a", "d">> :> <<"B", "AE", "D">> @@
    <<"s", "a", "m", "e">> :> <<"S", "EY", "M">> @@
    <<"q", "u", "i", "c", "k">> :> <<"K", "W", "IH", "K">> @@
    <<"b", "r", "o", "w", "n">> :> <<"B", "R", "AW", "N">> @@
    <<"f", "o", "x">> :> <<"F", "AA", "K", "S">>

UpperToLower ==
    "A" :> "a" @@ "B" :> "b" @@ "C" :> "c" @@ "D" :> "d" @@ "E" :> "e" @@ "F" :> "f" @@ "G" :> "g" @@
    "H" :> "h" @@ "I" :> "i" @@ "J" :> "j" @@ "K" :> "k" @@ "L" :> "l" @@ "M" :> "m" @@ "N" :> "n" @@
    "O" :> "o" @@ "P" :> "p" @@ "Q" :> "q" @@ "R" :> "r" @@ "S" :> "s" @@ "T" :> "t" @@ "U" :> "u" @@
    "V" :> "v" @@ "W" :> "w" @@ "X" :> "x" @@ "Y" :> "y" @@ "Z" :> "z"

FORMANT_AMPLITUDES == [F1 |-> 1000, F2 |-> 700, F3 |-> 400]

\* The keys every object literal inherits from Object.prototype that a
\* lower-cased word can spell: WORD_PRONUNCIATIONS[word] is then a truthy
\* value that is not iterable.
ObjectPrototypeKeys ==
    { <<"c", "o", "n", "s", "t", "r", "u", "c", "t", "o", "r">>,
      <<"_", "_", "p", "r", "o", "t", "o", "_", "_">> }

Letters == DOMAIN LETTER_TO_PHONEME
Digits == {"0", "1", "2", "3", "4", "5", "6", "7", "8", "9"}
IsSpace(c) == c = " "
\* \w of the regular expression /[^\w\s']/g, after toLowerCase
IsWordChar(c) == c \in Letters \/ c \in {"a", "e", "i", "o", "u"} \/ c \in Digits \/ c = "_"
ToLower(c) == IF c \in DOMAIN UpperToLower THEN UpperToLower[c] ELSE c

\* text.toLowerCase().replace(/[^\w\s']/g, '')
RECURSIVE Normalize(_)
Normalize(text) ==
    IF text = <<>> THEN <<>>
    ELSE LET c == ToLower(Head(text))
         IN  IF IsWordChar(c) \/ IsSpace(c) \/ c = "'"
             THEN <<c>> \o Normalize(Tail(text))
             ELSE Normalize(Tail(text))

\* String.prototype.split(/\s+/): cur is the token being read, inSpace tells
\* that the previous character was white space.
RECURSIVE SplitFrom(_, _, _)
SplitFrom(s, cur, inSpace) ==
    IF s = <<>> THEN <<cur>>
    ELSE IF IsSpace(Head(s))
         THEN IF inSpace THEN SplitFrom(Tail(s), cur, TRUE)
              ELSE <<cur>> \o SplitFrom(Tail(s), <<>>, TRUE)
         ELSE SplitFrom(Tail(s), Append(cur, Head(s)), FALSE)

Split(s) == SplitFrom(s, <<>>, FALSE)

\* String.prototype.trim()
RECURSIVE TrimLeft(_)
TrimLeft(s) == IF s # <<>> /\ IsSpace(Head(s)) THEN TrimLeft(Tail(s)) ELSE s
RECURSIVE TrimRight(_)
TrimRight(s) ==
    IF s # <<>> /\ IsSpace(s[Len(s)]) THEN TrimRight(SubSeq(s, 1, Len(s) - 1)) ELSE s
Trim(s) == TrimRight(TrimLeft(s))

D010 == FLit(10, 100)
D007 == FLit(7, 100)
D006 == FLit(6, 100)
D005 == FLit(5, 100)
D004 == FLit(4, 100)
D002 == FLit(2, 100)
D001 == FLit(1, 100)

getPhonemeDuration(phoneme) ==
    IF phoneme \in {"IY", "IH", "EH", "AE", "AA", "AO", "UH", "UW", "AH", "ER",
                    "EY", "AY", "OY", "AW", "OW"} THEN D010
    ELSE IF phoneme \in {"M", "N", "NG", "L", "R", "W", "Y"} THEN D007
    ELSE IF phoneme \in {"V", "DH", "Z", "ZH", "B", "D", "G", "JH"} THEN D005
    ELSE D004

Unit(phoneme) == [phoneme |-> phoneme, duration |-> getPhonemeDuration(phoneme)]

RECURSIVE wordToPhonemesFrom(_, _)
wordToPhonemesFrom(word, i) ==
    IF i > Len(word) THEN <<>>
    ELSE IF i + 2 <= Len(word) /\ SubSeq(word, i, i + 2) \in DOMAIN DIGRAPH_TO_PHONEME
         THEN <<Unit(DIGRAPH_TO_PHONEME[SubSeq(word, i, i + 2)])>>
                  \o wordToPhonemesFrom(word, i + 3)
    ELSE IF i + 1 <= Len(word) /\ SubSeq(word, i, i + 1) \in DOMAIN DIGRAPH_TO_PHONEME
         THEN <<Unit(DIGRAPH_TO_PHONEME[SubSeq(word, i, i + 1)])>>
                  \o wordToPhonemesFrom(word, i + 2)
    ELSE IF word[i] \in DOMAIN LETTER_TO_PHONEME
         THEN <<Unit(LETTER_TO_PHONEME[word[i]])>> \o wordToPhonemesFrom(word, i + 1)
    ELSE wordToPhonemesFrom(word, i + 1)

wordToPhonemes(word) == wordToPhonemesFrom(word, 1)

\* The iterations of the while loop of wordToPhonemes from position i on:
\* the value of i (from 1) and the number of characters the iteration
\* advances i by.
RECURSIVE ScanFrom(_, _)
ScanFrom(word, i) ==
    IF i > Len(word) THEN <<>>
    ELSE The({<<[at |-> i, len |-> n]>> \o ScanFrom(word, i + n) :
                 n \in {IF i + 2 <= Len(word)
                           /\ SubSeq(word, i, i + 2) \in DOMAIN DIGRAPH_TO_PHONEME THEN 3
                        ELSE IF i + 1 <= Len(word)
                           /\ SubSeq(word, i, i + 1) \in DOMAIN DIGRAPH_TO_PHONEME THEN 2
                        ELSE 1}})

Units(ps) == [k \in 1..Len(ps) |-> Unit(ps[k])]

\* The loop of textToPhonemes from word i on: threw tells that iterating
\* WORD_PRONUNCIATIONS[word] raised a TypeError.
RECURSIVE textToPhonemesFrom(_, _)
textToPhonemesFrom(words, i) ==
    IF i > Len(words) THEN [threw |-> FALSE, phonemes |-> <<>>]
    ELSE LET word == words[i]
             rest == textToPhonemesFrom(words, i + 1)
             sil  == IF i < Len(words)
                     THEN <<[phoneme |-> "SIL", duration |-> D006]>> ELSE <<>>
         IN  IF word = <<>> THEN rest
             ELSE IF word \in DOMAIN WORD_PRONUNCIATIONS
                  THEN [rest EXCEPT !.phonemes =
                            Units(WORD_PRONUNCIATIONS[word]) \o sil \o @]
             ELSE IF word \in ObjectPrototypeKeys
                  THEN [threw |-> TRUE, phonemes |-> <<>>]
             ELSE [rest EXCEPT !.phonemes = wordToPhonemes(word) \o sil \o @]

textToPhonemes(text) == textToPhonemesFrom(Split(Normalize(text)), 1)

\* getFormants with voiced: true for every phoneme
getFormants_allVoiced(phoneme) ==
    LET f == IF phoneme \in DOMAIN PHONEME_FORMANTS
             THEN PHONEME_FORMANTS[phoneme] ELSE PHONEME_FORMANTS["AH"]
    IN  [f1 |-> f[1], f2 |-> f[2], f3 |-> f[3], voiced |-> TRUE]

getFormants(phoneme) ==
    LET f == IF phoneme \in DOMAIN PHONEME_FORMANTS
             THEN PHONEME_FORMANTS[phoneme] ELSE PHONEME_FORMANTS["AH"]
    IN  [f1 |-> f[1], f2 |-> f[2], f3 |-> f[3], voiced |-> f[1] > 0]

\* x || d
OrDefault(x, d) == IF x = 0 THEN d ELSE x

SilenceTarget(time) == [time |-> time, f1 |-> 400, f2 |-> 1500, f3 |-> 2500, amp |-> 0]

\* The targets of phonemes i.. with currentTime as the loop reaches phoneme
\* i, followed by the final silence; the last element carries currentTime.
RECURSIVE TargetsFrom(_, _, _)
TargetsFrom(phonemes, i, currentTime) ==
    IF i > Len(phonemes)
    THEN <<SilenceTarget(FAdd(currentTime, D002))>>
    ELSE LET ph == phonemes[i]
             fm == getFormants(ph.phoneme)
             tg == [time |-> FAdd(currentTime, FHalf(ph.duration)),
                    f1 |-> OrDefault(fm.f1, 400), f2 |-> OrDefault(fm.f2, 1500),
                    f3 |-> OrDefault(fm.f3, 2500),
                    amp |-> IF fm.voiced THEN 1000 ELSE 0]
         IN  <<tg>> \o The({TargetsFrom(phonemes, i + 1, next) :
                                next \in {FAdd(currentTime, ph.duration)}})

\* the targets array: initial silence, one target per phoneme, final silence
Targets(phonemes) == <<SilenceTarget(BZero)>> \o TargetsFrom(phonemes, 1, D002)

RECURSIVE EndTime(_, _, _)
EndTime(phonemes, i, currentTime) ==
    IF i > Len(phonemes) THEN currentTime
    ELSE The({EndTime(phonemes, i + 1, next) :
                 next \in {FAdd(currentTime, phonemes[i].duration)}})

\* 0.5 - 0.5 * Math.cos(alpha * Math.PI) in thousandths, for alpha = u / 1000,
\* with cos(pi x) taken as (1 - 4 x^2) / (1 + x^2) on [-1/2, 1/2] (within 0.002).
EaseLow(u) == (5000 * u * u) \div (2 * (1000000 + u * u))
Ease(u) ==
    LET v == IF u > 1000 THEN 2000 - u ELSE u
    IN  IF v <= 500 THEN EaseLow(v) ELSE 1000 - EaseLow(1000 - v)

Interpolate(pv, nv, sa) == pv + (sa * (nv - pv)) \div 1000

Min(S) == CHOOSE m \in S : \A k \in S : m <= k
Max(S) == CHOOSE m \in S : \A k \in S : m >= k

\* the function x |-> F(x) on S, computed once
RECURSIVE Memo(_, _)
Memo(F(_), S) ==
    IF S = {} THEN <<>>
    ELSE LET x == CHOOSE y \in S : TRUE
         IN  (x :> F(x)) @@ Memo(F, S \ {x})

\* The pair of targets the search loop picks for time t: the first pair
\* with prev.time <= t < next.time, else the first and the last target.
Bracket(targets, t) ==
    LET J == {j \in 1..(Len(targets) - 1) :
                 FLe(targets[j].time, t) /\ FLt(t, targets[j + 1].time)}
    IN  IF J = {} THEN <<targets[1], targets[Len(targets)]>>
        ELSE <<targets[Min(J)], targets[Min(J) + 1]>>

PointBetween(prev, next, t) ==
    LET dt == FMillis(next.time) - FMillis(prev.time)
        u  == IF FLt(prev.time, next.time)
              THEN (1000 * (FMillis(t) - FMillis(prev.time))) \div dt ELSE 0
    IN  The({[t |-> t,
              f1 |-> Interpolate(prev.f1, next.f1, sa),
              f2 |-> Interpolate(prev.f2, next.f2, sa),
              f3 |-> Interpolate(prev.f3, next.f3, sa),
              amp |-> Interpolate(prev.amp, next.amp, sa)] : sa \in {Ease(u)}})

\* One sample of the interpolation loop, at t = i * sampleInterval.
SamplePoint(targets, i) ==
    The({The({PointBetween(pn[1], pn[2], t) : pn \in {Bracket(targets, t)}}) :
            t \in {FMulInt(D001, i)}})

RECURSIVE PointsFrom(_, _, _)
PointsFrom(targets, i, numSamples) ==
    IF i > numSamples THEN <<>>
    ELSE <<SamplePoint(targets, i)>> \o PointsFrom(targets, i + 1, numSamples)

\* Tracks without the tier weights FORMANT_AMPLITUDES
Tracks_unweighted(pts, totalDuration) ==
    LET Track(f) == [k \in 1..Len(pts) |->
                        [t |-> pts[k].t, freq |-> pts[k][f], amp |-> pts[k].amp]]
    IN  [duration |-> totalDuration,
         formants |-> [F1 |-> Track("f1"), F2 |-> Track("f2"), F3 |-> Track("f3")]]

Tracks(pts, totalDuration) ==
    LET Track(f, w) == [k \in 1..Len(pts) |->
                           [t |-> pts[k].t, freq |-> pts[k][f],
                            amp |-> (pts[k].amp * w) \div 1000]]
    IN  [duration |-> totalDuration,
         formants |-> [F1 |-> Track("f1", FORMANT_AMPLITUDES.F1),
                       F2 |-> Track("f2", FORMANT_AMPLITUDES.F2),
                       F3 |-> Track("f3", FORMANT_AMPLITUDES.F3)]]

\* The trajectory: formants[f] is the point list formants[f].trajectory of
\* the code (the colour is left out).
phonemesToTrajectory(phonemes) ==
    The({The({Tracks(pts, totalDuration) :
                 pts \in {PointsFrom(targets, 0, FCeil(FDiv(totalDuration, D001)))}}) :
            targets \in {Targets(ps) : ps \in {phonemes}},
            totalDuration \in {FAdd(EndTime(ps, 1, D002), D004) : ps \in {phonemes}}})

\* textToTrajectory: the trajectory, or threw when textToPhonemes raised.
textToTrajectory(text) ==
    The({IF r.threw THEN [threw |-> TRUE]
         ELSE [threw |-> FALSE, trajectory |-> phonemesToTrajectory(r.phonemes)] :
            r \in {textToPhonemes(text)}})

(***************************************************************************)
(* js/formant-player.js, LPCAnalyzer.  A sample buffer is described by its *)
(* length n and by the roots the LPC polynomial of each of its frames has  *)
(* (wave): a root is given by its frequency in Hz, its magnitude           *)
(* gain / max(1 - |root|, 0.01) in thousandths, its bandwidth in Hz and    *)
(* the sign of its imaginary part.  Amplitudes are thousandths.            *)
(***************************************************************************)
null == [null |-> TRUE]

hopSize == 256
targetRate == 8000

Root(f, m, bw, up) == [freq |-> f, magnitude |-> m, bandwidth |-> bw, imagPositive |-> up]

\* The roots found in frame hop of a buffer: "voiced" alternates a frame with
\* five roots, three of them formants, and a frame whose only formant lies
\* above the previous F2; "bright" has the same three formants in every
\* frame, the second the most resonant; "silent" has zero gain and no
\* complex roots.
FrameRoots(wave, hop) ==
    IF wave = "bright"
    THEN <<Root(700, 200, 100, TRUE), Root(700, 200, 100, FALSE),
           Root(1200, 600, 150, TRUE), Root(1200, 600, 150, FALSE),
           Root(2600, 100, 200, TRUE), Root(2600, 100, 200, FALSE)>>
    ELSE IF wave = "voiced"
    THEN IF hop % 2 = 0
         THEN <<Root(2600, 100, 200, TRUE), Root(700, 500, 100, TRUE),
                Root(700, 500, 100, FALSE), Root(1200, 300, 150, TRUE),
                Root(3900, 50, 900, TRUE)>>
         ELSE <<Root(60, 900, 50, TRUE), Root(1800, 800, 90, TRUE),
                Root(1800, 800, 90, FALSE)>>
    ELSE <<>>

RECURSIVE SortByFreq(_)
SortByFreq(S) ==
    IF S = {} THEN <<>>
    ELSE LET f == CHOOSE r \in S : \A q \in S : r.freq <= q.freq
         IN  <<f>> \o SortByFreq(S \ {f})

\* coeffsToFormants without the sort
coeffsToFormants_unsorted(roots) ==
    SelectSeq(roots, LAMBDA r : /\ r.imagPositive
                                /\ r.freq > 90 /\ r.freq < 4000
                                /\ r.bandwidth > 0 /\ r.bandwidth < 600)

\* coeffsToFormants, from the roots on
coeffsToFormants(roots) ==
    LET keep == {roots[k] : k \in {j \in 1..Len(roots) :
                    /\ roots[j].imagPositive
                    /\ roots[j].freq > 90 /\ roots[j].freq < 4000
                    /\ roots[j].bandwidth > 0 /\ roots[j].bandwidth < 600}}
    IN  SortByFreq(keep)

\* resample(audio, fromRate, toRate).length; -1 when new Float32Array raises
\* a RangeError (the length is Infinity)
resample(n, fromRate) ==
    IF fromRate = targetRate THEN n
    ELSE IF fromRate = 0 THEN (IF n = 0 THEN 0 ELSE -1)
    ELSE FFloor(FDiv(FromInt(n), FDiv(FromInt(fromRate), FromInt(targetRate))))

\* Smooth with the magnitude of a slot without candidate set to 0
Smooth_dropsToZero(prevFreq, prevMag, formants, i) ==
    IF i <= Len(formants) /\ formants[i].freq > 0
    THEN <<(7 * prevFreq + 3 * formants[i].freq) \div 10,
           (7 * prevMag + 3 * formants[i].magnitude) \div 10>>
    ELSE <<prevFreq, 0>>

\* one smoothing step of slot i: <<prevFreqs[i], prevMags[i]>>
Smooth(prevFreq, prevMag, formants, i) ==
    IF i <= Len(formants) /\ formants[i].freq > 0
    THEN <<(7 * prevFreq + 3 * formants[i].freq) \div 10,
           (7 * prevMag + 3 * formants[i].magnitude) \div 10>>
    ELSE <<prevFreq, (8 * prevMag) \div 10>>

\* const time = (hop * this.hopSize) / this.sampleRate, kept in a table for
\* the first hops
hopTime(hop) == FDiv(FromInt(hop * hopSize), FromInt(targetRate))
HopTimes == Memo(hopTime, 0..8)

\* the point pushed for one frame: its time, prevFreqs and the per-frame
\* normalised, weighted amplitudes (with prevMags, which the code drops)
Frame(hop, freqs, mags) ==
    LET maxMag == Max({mags[1], mags[2], mags[3], 1})
    IN  [t |-> IF hop \in DOMAIN HopTimes THEN HopTimes[hop] ELSE hopTime(hop),
         freqs |-> freqs, mags |-> mags,
         amps |-> <<(((mags[1] * 1000) \div maxMag) * 1000) \div 1000,
                    (((mags[2] * 1000) \div maxMag) * 700) \div 1000,
                    (((mags[3] * 1000) \div maxMag) * 400) \div 1000>>]

\* The frames hop..numHops-1 of the loop of analyze.
RECURSIVE FramesFrom(_, _, _, _, _)
FramesFrom(wave, hop, numHops, prevFreqs, prevMags) ==
    IF hop >= numHops THEN <<>>
    ELSE The({<<Frame(hop, <<s[1][1], s[2][1], s[3][1]>>, <<s[1][2], s[2][2], s[3][2]>>)>>
              \o FramesFrom(wave, hop + 1, numHops,
                            <<s[1][1], s[2][1], s[3][1]>>, <<s[1][2], s[2][2], s[3][2]>>) :
                 s \in {<<Smooth(prevFreqs[1], prevMags[1], fm, 1),
                          Smooth(prevFreqs[2], prevMags[2], fm, 2),
                          Smooth(prevFreqs[3], prevMags[3], fm, 3)>> :
                            fm \in {coeffsToFormants(FrameRoots(wave, hop))}}})

\* Math.pow(x, 0.6) for x = amp / globalMax, to a fiftieth, in thousandths
Pow06(amp, globalMax) ==
    LET x == (50 * amp) \div globalMax
    IN  20 * Max({y \in 0..50 : y * y * y * y * y <= x * x * x * 2500})

normalizeAmplitudes(frames) ==
    LET Track(i, w, globalMax) == [k \in 1..Len(frames) |->
            [t |-> frames[k].t, freq |-> frames[k].freqs[i],
             amp |-> IF globalMax > 0
                     THEN (Pow06(frames[k].amps[i], globalMax) * w) \div 1000
                     ELSE frames[k].amps[i]]]
    IN  The({[F1 |-> Track(1, 1000, g), F2 |-> Track(2, 700, g), F3 |-> Track(3, 400, g)] :
                g \in {Max({0} \cup {frames[k].amps[i] : k \in 1..Len(frames), i \in 1..3})}})

\* analyze(audioBuffer, inputSampleRate): the three tracks (each the point
\* list of the code), or threw
analyze(audio, inputSampleRate) ==
    The({IF len < 0 THEN [threw |-> TRUE]
         ELSE [threw |-> FALSE,
               trajectories |-> The({normalizeAmplitudes(fr) :
                   fr \in {FramesFrom(audio.wave, 0, len \div hopSize,
                                      <<500, 1500, 2500>>, <<0, 0, 0>>)}})] :
            len \in {resample(audio.n, inputSampleRate)}})

\* What generateWithLPC returns once synthesize has resolved with audio
generateWithLPC(text, audio, ttsSampleRate) ==
    The({IF r.threw THEN [threw |-> TRUE]
         ELSE [threw |-> FALSE,
               utterance |-> [id |-> "lpc-analyzed", transcript |-> text,
                   duration |-> FDiv(FromInt(audio.n), FromInt(ttsSampleRate)),
                   formants |-> r.trajectories,
                   originalAudio |-> audio, originalSampleRate |-> ttsSampleRate,
                   analysisMethod |-> "lpc"]] :
            r \in {analyze(audio, ttsSampleRate)}})

generateWithPhonemeMapping(text) ==
    The({IF r.threw THEN [threw |-> TRUE]
         ELSE [threw |-> FALSE,
               utterance |-> [id |-> "phoneme-mapped", transcript |-> text,
                   duration |-> r.trajectory.duration,
                   formants |-> r.trajectory.formants,
                   originalAudio |-> null, originalSampleRate |-> null,
                   analysisMethod |-> "phoneme-mapping"]] :
            r \in {textToTrajectory(text)}})

(***************************************************************************)
(* The running program: js/main.js builds one FormantPlayer (with its      *)
(* TTSCapture) and one UIController and calls ui.initialize().             *)
(***************************************************************************)
MaxCalls == 2

T_b == <<"b">>
T_punct == <<"!">>
T_blank == <<" ">>
T_ctor == <<"c", "o", "n", "s", "t", "r", "u", "c", "t", "o", "r">>
Texts == {<<>>, T_blank, T_punct, T_b, T_ctor}
ExampleTexts == {T_b}

\* What meSpeak.speak(text, {rawdata: 'array'}) can do: return nothing,
\* raise, or return a WAV whose 'fmt ' chunk declares rate and whose 'data'
\* chunk holds bytes bytes of the samples wave.
Wav(rate, bytes, wave) == [kind |-> "wav", rate |-> rate, bytes |-> bytes, wave |-> wave]
SpeakResults ==
    { [kind |-> "none"], [kind |-> "throws"],
      Wav(22050, 0, "silent"), Wav(22050, 400, "voiced"),
      Wav(22050, 4400, "voiced"), Wav(8000, 1600, "silent"),
      Wav(22050, 3000, "bright"), Wav(0, 400, "voiced") }

\* the fallback result of every text, and the analysis of every buffer at
\* every rate the capture can hold
PhonemeMapped == Memo(generateWithPhonemeMapping, Texts)
Buffers == {[n |-> r.bytes \div 2, wave |-> r.wave] : r \in {q \in SpeakResults : q.kind = "wav" /\ q.bytes > 0}}
Rates == {22050} \cup {r.rate : r \in {q \in SpeakResults : q.kind = "wav"}}
AnalyzedAt(x) == generateWithLPC(<<>>, x[1], x[2])
Analyzed == Memo(AnalyzedAt, Buffers \X Rates)
\* the frames of the loop of analyze, before normalizeAmplitudes
FramesAt(x) ==
    The({IF len < 0 THEN <<>>
         ELSE FramesFrom(x[1].wave, 0, len \div hopSize, <<500, 1500, 2500>>, <<0, 0, 0>>) :
            len \in {resample(x[1].n, x[2])}})
Frames == Memo(FramesAt, Buffers \X Rates)
LPCResult(text, audio, rate) ==
    LET r == Analyzed[<<audio, rate>>]
    IN  IF r.threw THEN r ELSE [r EXCEPT !.utterance.transcript = text]

\* pm is a PhonemeMapper used on its own: the text given to it and what
\* textToPhonemes and phonemesToTrajectory returned for it.
\* qr is one call of LPCAnalyzer.computeEigenvalues(matrix, n) on its own: its
\* position, n, and the locals m, iter and eigenvalues.
VARIABLES meSpeak, tts, player, ui, calls, jobs, pm, qr, pr, ld, wp, an, ae
vars == <<meSpeak, tts, player, ui, calls, jobs, pm, qr, pr, ld, wp, an, ae>>

rejected == [rejected |-> TRUE]

\* a mapper that has been given nothing (stage "new") or text (stage "text")
Mapper(stage, text) ==
    [stage |-> stage, text |-> text, words |-> <<>>, scans |-> <<>>, resolved |-> <<>>,
     phonemes |-> <<>>,
     targets |-> <<>>, pairs |-> <<>>, points |-> <<>>, trajectory |-> null]

\* computeEigenvalues at the test of its outer loop, for an n x n matrix
\* (pc "new": not called)
Eigen(pc, n) == [pc |-> pc, n |-> n, m |-> n, iter |-> 0, eigenvalues |-> <<>>]

\* findPolynomialRoots before its first statement, given coeffs (pc "new":
\* not called)
Poly(pc, coeffs) == [pc |-> pc, coeffs |-> coeffs, companion |-> <<>>, roots |-> <<>>]

\* levinsonDurbin before its first statement, given r and the order p
Levinson(pc, r, p) ==
    [pc |-> pc, r |-> r, p |-> p, a |-> <<>>, e |-> null, i |-> 0, errors |-> <<>>,
     gain |-> null]

\* synthesize after meSpeak.speak returned result
Synth(pc, result) ==
    [pc |-> pc, result |-> result, sampleRate |-> 22050, offset |-> 0, dataOffset |-> 0,
     dataSize |-> 0, out |-> null]

\* analyze before its first statement, on an analyzer whose earlier run (if
\* any) got the frames earlier.input and returned earlier.returned
Analysis(pc, earlier) ==
    [pc |-> pc, numHops |-> 0, hop |-> 0, prevFreqs |-> null, prevMags |-> null,
     roots |-> <<>>, formants |-> <<>>, input |-> <<>>, points |-> <<>>,
     returned |-> null, earlier |-> earlier]

\* the stand-alone components that have not been called
Formants == {"F1", "F2", "F3"}

\* The AudioEngine after its constructor, with the speechSynthesis of the
\* page: contextState is the state the AudioContext has once init() has
\* created it ("suspended" until a resume() under an autoplay policy);
\* timers holds the playbacks whose end timer is pending, current the
\* playback whose oscillators the engine holds, waiting the calls that await
\* resume(), original the last playOriginal call; sineAt and revealAt count
\* the utterances stored when the sinewave was last started and when the
\* original was last revealed.
Engine(ctx) ==
    [contextState |-> ctx, isPlaying |-> FALSE, speaking |-> FALSE,
     formantMuted |-> [f \in Formants |-> FALSE],
     oscillatorGains |-> [f \in Formants |-> null], formantsData |-> null,
     plays |-> 0, current |-> 0, timers |-> {}, clicks |-> 0, waiting |-> <<>>,
     original |-> null, sineAt |-> 0, revealAt |-> 0]

Uncalled ==
    /\ an = Analysis("new", null)
    /\ pr = Poly("new", <<>>)
    /\ ld = Levinson("new", <<>>, 0)
    /\ wp = Synth("new", null)

Constructed ==
    /\ pm = Mapper("new", <<>>)
    /\ qr = Eigen("new", 0)
    /\ Uncalled
    /\ meSpeak = [defined |-> FALSE, configLoaded |-> FALSE, voiceThrows |-> FALSE]
    /\ tts = [sampleRate |-> 22050, initialized |-> FALSE, initPromise |-> "null",
              timeout |-> FALSE, poll |-> FALSE, voice |-> "idle", timedOut |-> FALSE]
    /\ player = [useLPCAnalysis |-> TRUE, utteranceData |-> null,
                 currentText |-> <<>>, initPc |-> "new"]
    /\ \E v \in {<<>>, T_b} :
           ui = [textInput |-> v, generateBtnDisabled |-> FALSE,
                 analysisStatusHidden |-> TRUE, transcriptHidden |-> TRUE,
                 playSinewaveDisabled |-> TRUE, revealOriginalDisabled |-> TRUE,
                 replaySinewaveDisabled |-> TRUE,
                 state |-> "initial", hasHeardOriginal |-> FALSE, initPc |-> "new"]
    /\ calls = <<>>
    /\ jobs = <<>>

Init == Constructed /\ ae = Engine("running")

\* isReady without the test of initialized
isReady_meSpeakOnly(t) == meSpeak.defined

\* TTSCapture.isReady
isReady(t) == t.initialized /\ meSpeak.defined

Settle(p, outcome) == IF p = "pending" THEN outcome ELSE p

\* checkAndInit of TTSCapture.init
checkAndInit(t) ==
    IF ~meSpeak.defined THEN [t EXCEPT !.poll = TRUE]
    ELSE IF meSpeak.configLoaded
    THEN [t EXCEPT !.timeout = FALSE, !.initialized = TRUE,
                   !.initPromise = Settle(@, "resolved")]
    ELSE IF meSpeak.voiceThrows
    THEN [t EXCEPT !.timeout = FALSE, !.initPromise = Settle(@, "rejected")]
    ELSE [t EXCEPT !.voice = "loading"]

\* TTSCapture.init(): the capture after the call
ttsInit(t) ==
    IF t.initialized \/ t.initPromise # "null" THEN t
    ELSE checkAndInit([t EXCEPT !.initPromise = "pending", !.timeout = TRUE])

\* the state of the promise init() returned
InitAwait(t) == IF t.initialized THEN "resolved" ELSE t.initPromise

Job(kind, id) == [kind |-> kind, id |-> id]

RECURSIVE WakeJobs(_, _)
WakeJobs(cs, k) ==
    IF k > Len(cs) THEN <<>>
    ELSE (IF cs[k].pc = "awaitInit" THEN <<Job("synth", k)>> ELSE <<>>)
             \o WakeJobs(cs, k + 1)

\* The promise of init settles (t is the capture after the step): every
\* continuation waiting on it is queued, in the order of subscription.
InitSettles(t) ==
    IF tts.initPromise = "pending" /\ t.initPromise # "pending"
    THEN /\ jobs' = jobs
                \o (IF player.initPc = "tts" THEN <<Job("playerInit2", 0)>> ELSE <<>>)
                \o WakeJobs(calls, 1)
         /\ calls' = [k \in 1..Len(calls) |->
                IF calls[k].pc = "awaitInit"
                THEN [calls[k] EXCEPT !.pc = "synth",
                         !.audio = IF t.initPromise = "rejected" THEN rejected ELSE @]
                ELSE calls[k]]
    ELSE UNCHANGED <<jobs, calls>>

\* the calls whose promise has not settled, and those of them that still
\* wait for synthesize
InFlight == {k \in 1..Len(calls) : calls[k].out = "pending"}
Awaiting == {k \in 1..Len(calls) : calls[k].pc \in {"awaitInit", "synth", "thenable", "settle"}}

\* FormantPlayer.generateFromText(text) up to its first suspension, called
\* by src with the interface in state u and the job queue q.
generateFromText(src, text, u, q) ==
    LET id  == Len(calls) + 1
        new == [src |-> src, text |-> text, pc |-> "done", path |-> "phoneme",
                rate |-> 0, wav |-> null, audio |-> null, result |-> null,
                out |-> "pending",
                returned |-> null, awaiting |-> Awaiting,
                readyAtStart |-> isReady(tts),
                initFailedAtStart |-> tts.initPromise = "rejected"]
        u1  == [u EXCEPT !.analysisStatusHidden = FALSE]
        cont == IF src = "ui" THEN <<Job("cont", id)>> ELSE <<>>
    IN  IF player.useLPCAnalysis /\ isReady(tts)
        THEN LET t == ttsInit(tts)
                 w == InitAwait(t)
             IN  /\ tts' = t
                 /\ player' = [player EXCEPT !.currentText = text]
                 /\ ui' = u1
                 /\ calls' = Append(calls, [new EXCEPT !.path = "lpc",
                        !.rate = tts.sampleRate,
                        !.pc = IF w = "pending" THEN "awaitInit" ELSE "synth",
                        !.audio = IF w = "rejected" THEN rejected ELSE null])
                 /\ jobs' = IF w = "pending" THEN q ELSE Append(q, Job("synth", id))
        ELSE LET r == PhonemeMapped[text]
             IN  /\ tts' = tts
                 /\ jobs' = q \o cont
                 /\ IF r.threw
                    THEN /\ player' = [player EXCEPT !.currentText = text]
                         /\ ui' = u1
                         /\ calls' = Append(calls, [new EXCEPT !.out = "rejected",
                                !.pc = IF src = "ui" THEN "cont" ELSE "done"])
                    ELSE /\ player' = [player EXCEPT !.currentText = text,
                                                     !.utteranceData = r.utterance]
                         /\ ui' = [u1 EXCEPT !.analysisStatusHidden = TRUE]
                         /\ calls' = Append(calls, [new EXCEPT !.out = "resolved",
                                !.returned = r.utterance,
                                !.pc = IF src = "ui" THEN "cont" ELSE "done"])

\* UIController.handleGenerate up to its await
handleGenerate(u, q) ==
    LET text == Trim(u.textInput)
    IN  IF text = <<>>
        THEN /\ ui' = u
             /\ jobs' = q
             /\ UNCHANGED <<tts, player, calls>>
        ELSE generateFromText("ui", text,
                 [u EXCEPT !.generateBtnDisabled = TRUE, !.transcriptHidden = TRUE], q)

Started == ui.initPc # "new"

\* FormantPlayer.isPlaying
isPlaying(a) == a.isPlaying \/ a.speaking

\* UIController.updateButtonStates on the interface u
updateButtonStates(u, playing) ==
    [u EXCEPT !.generateBtnDisabled = playing,
              !.playSinewaveDisabled = IF u.state = "initial" THEN TRUE ELSE playing,
              !.revealOriginalDisabled =
                  IF u.state \in {"initial", "generated"} THEN TRUE ELSE playing,
              !.replaySinewaveDisabled =
                  IF u.state \in {"revealed", "replay"} THEN playing ELSE TRUE]
\* an event handler or timer callback starts only when no promise job is queued
Idle == jobs = <<>>

\* Calls are counted up to MaxCalls; the auto-generate of initialize keeps
\* one of them while initialize has not finished.
Room == Len(calls) + (IF ui.initPc = "started" THEN 1 ELSE 0) < MaxCalls

(***************************************************************************)
(* The environment: the meSpeak script loads, with or without its          *)
(* configuration, and with a loadVoice that raises or not.                 *)
(***************************************************************************)
MeSpeakLoads ==
    /\ Idle /\ ~meSpeak.defined
    /\ \E cfg \in BOOLEAN, thr \in BOOLEAN :
           meSpeak' = [defined |-> TRUE, configLoaded |-> cfg, voiceThrows |-> thr]
    /\ UNCHANGED <<pm, qr, pr, ld, wp, an, ae, tts, player, ui, calls, jobs>>

\* main.js init(): ui.initialize() -> player.init() -> audioEngine.init()
Initialize ==
    /\ Idle /\ ui.initPc = "new"
    /\ \E audioOk \in BOOLEAN :
           IF audioOk
           THEN /\ player' = [player EXCEPT !.initPc = "audio"]
                /\ ui' = [ui EXCEPT !.initPc = "started"]
                /\ jobs' = Append(jobs, Job("playerInit1", 0))
           ELSE /\ player' = [player EXCEPT !.initPc = "failed"]
                /\ ui' = [ui EXCEPT !.initPc = "failed"]
                /\ jobs' = jobs
    /\ UNCHANGED <<pm, qr, pr, ld, wp, an, ae, meSpeak, tts, calls>>

Head1(kind) == jobs # <<>> /\ Head(jobs).kind = kind

\* FormantPlayer.init after audioEngine.init(): calls ttsCapture.init()
PlayerInitTTS ==
    /\ Head1("playerInit1")
    /\ LET t == ttsInit(tts)
       IN  /\ tts' = t
           /\ IF InitAwait(t) = "pending"
              THEN /\ player' = [player EXCEPT !.initPc = "tts"]
                   /\ jobs' = Tail(jobs)
              ELSE /\ player' = [player EXCEPT !.initPc = "settled"]
                   /\ jobs' = Append(Tail(jobs), Job("playerInit2", 0))
    /\ UNCHANGED <<pm, qr, pr, ld, wp, an, ae, meSpeak, ui, calls>>

\* the catch clause without useLPCAnalysis = false
PlayerInitDone_keepsLPC ==
    /\ Head1("playerInit2")
    /\ player' = [player EXCEPT !.initPc = "done"]
    /\ jobs' = Append(Tail(jobs), Job("uiInit", 0))
    /\ UNCHANGED <<pm, qr, pr, ld, wp, an, ae, meSpeak, tts, ui, calls>>

\* FormantPlayer.init after ttsCapture.init() settled: the catch clause
PlayerInitDone ==
    /\ Head1("playerInit2")
    /\ player' = [player EXCEPT !.initPc = "done",
           !.useLPCAnalysis = IF InitAwait(tts) = "rejected" THEN FALSE ELSE @]
    /\ jobs' = Append(Tail(jobs), Job("uiInit", 0))
    /\ UNCHANGED <<pm, qr, pr, ld, wp, an, ae, meSpeak, tts, ui, calls>>

\* UIController.initialize after player.init()
UIInitDone ==
    /\ Head1("uiInit")
    /\ LET u == updateButtonStates([ui EXCEPT !.initPc = "done"], isPlaying(ae))
       IN  IF Trim(ui.textInput) # <<>>
           THEN handleGenerate(u, Tail(jobs))
           ELSE /\ ui' = u
                /\ jobs' = Tail(jobs)
                /\ UNCHANGED <<tts, player, calls>>
    /\ UNCHANGED <<pm, qr, pr, ld, wp, an, ae, meSpeak>>

\* setTimeout(checkAndInit, 100)
PollTimerFires ==
    /\ Idle /\ tts.poll
    /\ LET t == checkAndInit([tts EXCEPT !.poll = FALSE])
       IN  tts' = t /\ InitSettles(t)
    /\ UNCHANGED <<pm, qr, pr, ld, wp, an, ae, meSpeak, player, ui>>

\* the 10 s timer without its reject
TimeoutFires_noReject ==
    /\ Idle /\ tts.timeout
    /\ tts' = [tts EXCEPT !.timeout = FALSE]
    /\ UNCHANGED <<pm, qr, pr, ld, wp, an, ae, meSpeak, player, ui, calls, jobs>>

\* the 10 s timer of TTSCapture.init
TimeoutFires ==
    /\ Idle /\ tts.timeout
    /\ LET t == IF ~tts.initialized
                THEN [tts EXCEPT !.timeout = FALSE,
                                 !.timedOut = tts.initPromise = "pending",
                                 !.initPromise = Settle(@, "rejected")]
                ELSE [tts EXCEPT !.timeout = FALSE]
       IN  tts' = t /\ InitSettles(t)
    /\ UNCHANGED <<pm, qr, pr, ld, wp, an, ae, meSpeak, player, ui>>

\* the callback given to meSpeak.loadVoice
VoiceCallback ==
    /\ Idle /\ tts.voice = "loading"
    /\ \E success \in BOOLEAN :
           LET t == IF success
                    THEN [tts EXCEPT !.voice = "done", !.timeout = FALSE,
                              !.initialized = TRUE,
                              !.initPromise = Settle(@, "resolved")]
                    ELSE [tts EXCEPT !.voice = "done", !.timeout = FALSE,
                              !.initPromise = Settle(@, "rejected")]
           IN  tts' = t /\ InitSettles(t)
    /\ UNCHANGED <<pm, qr, pr, ld, wp, an, ae, meSpeak, player, ui>>

(***************************************************************************)
(* The listeners of setupEventListeners.                                   *)
(***************************************************************************)
ClickGenerate ==
    /\ Idle /\ Started /\ Room /\ ~ui.generateBtnDisabled
    /\ \E v \in Texts : handleGenerate([ui EXCEPT !.textInput = v], jobs)
    /\ UNCHANGED <<pm, qr, pr, ld, wp, an, ae, meSpeak>>

PressEnter ==
    /\ Idle /\ Started /\ Room
    /\ \E v \in Texts : handleGenerate([ui EXCEPT !.textInput = v], jobs)
    /\ UNCHANGED <<pm, qr, pr, ld, wp, an, ae, meSpeak>>

ClickExample ==
    /\ Idle /\ Started /\ Room
    /\ \E v \in ExampleTexts : handleGenerate([ui EXCEPT !.textInput = v], jobs)
    /\ UNCHANGED <<pm, qr, pr, ld, wp, an, ae, meSpeak>>

\* any other caller of player.generateFromText
ApiGenerate ==
    /\ Started /\ Room
    /\ \E text \in Texts : generateFromText("api", text, ui, jobs)
    /\ UNCHANGED <<pm, qr, pr, ld, wp, an, ae, meSpeak>>

(***************************************************************************)
(* The promise jobs of one generate call on the LPC path, in the order the *)
(* job queue runs them.                                                    *)
(***************************************************************************)
Step(k, pc) == jobs' = Append(Tail(jobs), Job(pc, k))

\* parseWavToFloat32: the buffer, or rejected when no data chunk is found
parseWavToFloat32(res) ==
    IF res.bytes = 0 THEN rejected ELSE [n |-> res.bytes \div 2, wave |-> res.wave]

\* TTSCapture.synthesize after await this.init(): the promise executor
Synthesize ==
    /\ Head1("synth")
    /\ LET k == Head(jobs).id
       IN  /\ IF calls[k].audio = rejected
              THEN /\ calls' = [calls EXCEPT ![k].pc = "thenable"]
                   /\ tts' = tts
              ELSE \E res \in SpeakResults :
                       IF res.kind = "wav"
                       THEN /\ tts' = [tts EXCEPT !.sampleRate = res.rate]
                            /\ calls' = [calls EXCEPT ![k].pc = "thenable",
                                             ![k].wav = res,
                                             ![k].audio = parseWavToFloat32(res)]
                       ELSE /\ tts' = tts
                            /\ calls' = [calls EXCEPT ![k].pc = "thenable",
                                             ![k].audio = rejected]
           /\ Step(k, "thenable")
    /\ UNCHANGED <<pm, qr, pr, ld, wp, an, ae, meSpeak, player, ui>>

\* synthesize returned a promise: the job that subscribes to it
ResolveThenable ==
    /\ Head1("thenable")
    /\ LET k == Head(jobs).id
       IN  /\ calls' = [calls EXCEPT ![k].pc = "settle"]
           /\ Step(k, "settle")
    /\ UNCHANGED <<pm, qr, pr, ld, wp, an, ae, meSpeak, tts, player, ui>>

\* the promise of synthesize settles
SynthesizeSettles ==
    /\ Head1("settle")
    /\ LET k == Head(jobs).id
       IN  /\ calls' = [calls EXCEPT ![k].pc = "analyze"]
           /\ Step(k, "analyze")
    /\ UNCHANGED <<pm, qr, pr, ld, wp, an, ae, meSpeak, tts, player, ui>>

\* FormantPlayer.generateWithLPC after await synthesize
Analyze ==
    /\ Head1("analyze")
    /\ LET k == Head(jobs).id
           c == calls[k]
           r == IF c.audio = rejected THEN [threw |-> TRUE]
                ELSE LPCResult(c.text, c.audio, c.rate)
       IN  /\ calls' = [calls EXCEPT ![k].pc = "finish",
                            ![k].result = IF r.threw THEN rejected ELSE r.utterance]
           /\ Step(k, "finish")
    /\ UNCHANGED <<pm, qr, pr, ld, wp, an, ae, meSpeak, tts, player, ui>>

\* Finish that writes the new result into the object utteranceData holds,
\* which an earlier call has returned
Finish_inPlace ==
    /\ Head1("finish")
    /\ LET k  == Head(jobs).id
           c  == calls[k]
           r  == IF c.result = rejected THEN PhonemeMapped[c.text]
                 ELSE [threw |-> FALSE, utterance |-> c.result]
           pc == IF c.src = "ui" THEN "cont" ELSE "done"
       IN  /\ IF r.threw
              THEN /\ calls' = [calls EXCEPT ![k].pc = pc, ![k].out = "rejected"]
                   /\ UNCHANGED <<player, ui>>
              ELSE /\ calls' = [j \in DOMAIN calls |->
                                   IF j = k THEN [c EXCEPT !.pc = pc, !.out = "resolved",
                                                           !.returned = r.utterance]
                                   ELSE IF calls[j].returned # null
                                       THEN [calls[j] EXCEPT !.returned = r.utterance]
                                   ELSE calls[j]]
                   /\ player' = [player EXCEPT !.utteranceData = r.utterance]
                   /\ ui' = [ui EXCEPT !.analysisStatusHidden = TRUE]
           /\ jobs' = IF c.src = "ui" THEN Append(Tail(jobs), Job("cont", k))
                      ELSE Tail(jobs)
    /\ UNCHANGED <<pm, qr, pr, ld, wp, an, ae, meSpeak, tts>>

\* FormantPlayer.generateFromText after await generateWithLPC
Finish ==
    /\ Head1("finish")
    /\ LET k  == Head(jobs).id
           c  == calls[k]
           r  == IF c.result = rejected THEN PhonemeMapped[c.text]
                 ELSE [threw |-> FALSE, utterance |-> c.result]
           pc == IF c.src = "ui" THEN "cont" ELSE "done"
       IN  /\ IF r.threw
              THEN /\ calls' = [calls EXCEPT ![k].pc = pc, ![k].out = "rejected"]
                   /\ UNCHANGED <<player, ui>>
              ELSE /\ calls' = [calls EXCEPT ![k].pc = pc, ![k].out = "resolved",
                                    ![k].returned = r.utterance]
                   /\ player' = [player EXCEPT !.utteranceData = r.utterance]
                   /\ ui' = [ui EXCEPT !.analysisStatusHidden = TRUE]
           /\ jobs' = IF c.src = "ui" THEN Append(Tail(jobs), Job("cont", k))
                      ELSE Tail(jobs)
    /\ UNCHANGED <<pm, qr, pr, ld, wp, an, ae, meSpeak, tts>>

\* UIController.handleGenerate after await generateFromText
Continue ==
    /\ Head1("cont")
    /\ LET k == Head(jobs).id
       IN  /\ calls' = [calls EXCEPT ![k].pc = "done"]
           /\ ui' = IF calls[k].out = "resolved"
                    THEN [updateButtonStates(
                              [ui EXCEPT !.state = "generated", !.hasHeardOriginal = FALSE],
                              isPlaying(ae))
                             EXCEPT !.generateBtnDisabled = FALSE]
                    ELSE [ui EXCEPT !.analysisStatusHidden = TRUE,
                                    !.generateBtnDisabled = FALSE]
           /\ jobs' = Tail(jobs)
    /\ UNCHANGED <<pm, qr, pr, ld, wp, an, ae, meSpeak, tts, player>>

Microtask ==
    \/ PlayerInitTTS \/ PlayerInitDone \/ UIInitDone
    \/ Synthesize \/ ResolveThenable \/ SynthesizeSettles \/ Analyze \/ Finish
    \/ Continue

Environment == MeSpeakLoads \/ Initialize \/ PollTimerFires \/ TimeoutFires \/ VoiceCallback

UIEvent == ClickGenerate \/ PressEnter \/ ClickExample

Next == Environment \/ Microtask \/ UIEvent \/ ApiGenerate

Spec == Init /\ [][Next]_vars

\* only the interface starts generate calls
NextUI == Environment \/ Microtask \/ UIEvent

SpecUI == Init /\ [][NextUI]_vars

\* The job queue is drained whenever it is not empty, and a timer that is
\* armed fires.
FairSpec == Spec /\ WF_vars(Microtask) /\ WF_vars(TimeoutFires)

(***************************************************************************)
(* The phoneme mapper on its own: textToTrajectory(text) in its two steps, *)
(* for every text over MapperAlphabet of at most MaxLen characters and the *)
(* texts of MapperExamples.                                                *)
(***************************************************************************)
MaxLen == 3
MapperAlphabet == {"a", "t", "h", " ", "!"}

RECURSIVE Strings(_)
Strings(n) ==
    IF n = 0 THEN {<<>>}
    ELSE {<<>>} \cup {<<c>> \o w : c \in MapperAlphabet, w \in Strings(n - 1)}

MapperExamples ==
    { <<"h", "e", "l", "l", "o", " ", "w", "o", "r", "l", "d">>,
      <<"H", "i", "g", "h", " ", "n", "i", "g", "h", "t", ".">>,
      <<"t", "h", "a", "t", " ", "s", "i", "g", "h">>,
      <<"i", "t", "'", "s", " ", "2", " ", "s", "h", "y">>,
      <<" ", "t", "h", "e", " ", " ", "f", "o", "x", " ">>,
      T_b, T_ctor }

MapperTexts == Strings(MaxLen) \cup MapperExamples

\* the page before anything has run
NotStarted ==
    /\ meSpeak = [defined |-> FALSE, configLoaded |-> FALSE, voiceThrows |-> FALSE]
    /\ tts = [sampleRate |-> 22050, initialized |-> FALSE, initPromise |-> "null",
              timeout |-> FALSE, poll |-> FALSE, voice |-> "idle", timedOut |-> FALSE]
    /\ player = [useLPCAnalysis |-> TRUE, utteranceData |-> null,
                 currentText |-> <<>>, initPc |-> "new"]
    /\ ui = [textInput |-> <<>>, generateBtnDisabled |-> FALSE,
             analysisStatusHidden |-> TRUE, transcriptHidden |-> TRUE,
             playSinewaveDisabled |-> TRUE, revealOriginalDisabled |-> TRUE,
             replaySinewaveDisabled |-> TRUE,
             state |-> "initial", hasHeardOriginal |-> FALSE, initPc |-> "new"]
    /\ calls = <<>>
    /\ jobs = <<>>
    /\ ae = Engine("running")

InitMapper ==
    /\ \E text \in MapperTexts : pm = Mapper("text", text)
    /\ qr = Eigen("new", 0)
    /\ Uncalled
    /\ NotStarted

\* textToTrajectory: const phonemes = this.textToPhonemes(text)
TextToPhonemes ==
    /\ pm.stage = "text"
    /\ pm' = The({IF r.threw THEN [pm EXCEPT !.stage = "threw"]
                  ELSE [pm EXCEPT !.stage = "phonemes", !.phonemes = r.phonemes,
                                  !.words = Split(Normalize(pm.text)),
                                  !.scans = [k \in 1..Len(Split(Normalize(pm.text))) |->
                                               ScanFrom(Split(Normalize(pm.text))[k], 1)],
                                  !.resolved = [k \in 1..Len(Split(Normalize(pm.text))) |->
                                      textToPhonemesFrom(<<Split(Normalize(pm.text))[k]>>, 1).phonemes]] :
                     r \in {textToPhonemes(pm.text)}})
    /\ UNCHANGED <<qr, pr, ld, wp, an, ae, meSpeak, tts, player, ui, calls, jobs>>

\* textToTrajectory: return this.phonemesToTrajectory(phonemes)
PhonemesToTrajectory ==
    /\ pm.stage = "phonemes"
    /\ pm' = The({[pm EXCEPT !.stage = "trajectory", !.targets = targets,
                      !.pairs = [k \in 1..Len(points) |-> Bracket(targets, points[k].t)],
                      !.points = points,
                      !.trajectory = phonemesToTrajectory(pm.phonemes)] :
                targets \in {Targets(pm.phonemes)},
                points \in {PointsFrom(tg, 0, FCeil(FDiv(d, D001))) :
                               tg \in {Targets(pm.phonemes)},
                               d \in {FAdd(EndTime(pm.phonemes, 1, D002), D004)}}})
    /\ UNCHANGED <<qr, pr, ld, wp, an, ae, meSpeak, tts, player, ui, calls, jobs>>

NextMapper == TextToPhonemes \/ PhonemesToTrajectory

SpecMapper == InitMapper /\ [][NextMapper]_vars

(***************************************************************************)
(* LPCAnalyzer.computeEigenvalues on its own, for matrices of up to MaxN   *)
(* rows.  The entries of H are not kept: the tests on them (deflation,     *)
(* negative discriminant) can come out either way at every iteration, so   *)
(* the run of every matrix, also of one that never converges or holds NaN, *)
(* is among the behaviours.  An eigenvalue is kept as the entry of H or    *)
(* the expression it is read from.                                         *)
(***************************************************************************)
MaxN == 3
maxIter == 50

InitEigen ==
    /\ \E n \in 0..MaxN : qr = Eigen("outer", n)
    /\ pm = Mapper("new", <<>>)
    /\ Uncalled
    /\ NotStarted

Real(i) == [real |-> <<"H", i, i>>, imag |-> "0"]
InnerLoop == qr.pc = "outer" /\ qr.m > 0 /\ qr.iter < maxIter

\* if (m === 1): the last eigenvalue
EigenLast ==
    /\ InnerLoop /\ qr.m = 1
    /\ qr' = [qr EXCEPT !.eigenvalues = Append(@, Real(0)), !.m = 0]
    /\ UNCHANGED <<pm, pr, ld, wp, an, ae, meSpeak, tts, player, ui, calls, jobs>>

\* if (subdiag < 1e-10 * diag): deflation, and the next round of the outer
\* loop starts with iter = 0
EigenDeflate ==
    /\ InnerLoop /\ qr.m >= 2
    /\ qr' = [qr EXCEPT !.eigenvalues = Append(@, Real(qr.m - 1)), !.m = @ - 1, !.iter = 0]
    /\ UNCHANGED <<pm, pr, ld, wp, an, ae, meSpeak, tts, player, ui, calls, jobs>>

\* if (disc < 0): the trailing 2 x 2 block has a complex pair
EigenComplexPair ==
    /\ InnerLoop /\ qr.m >= 2
    /\ qr' = [qr EXCEPT !.eigenvalues = @ \o <<[real |-> "trace / 2", imag |-> "sqrt(-disc) / 2"],
                                                [real |-> "trace / 2", imag |-> "-sqrt(-disc) / 2"]>>,
                        !.m = @ - 2, !.iter = 0]
    /\ UNCHANGED <<pm, pr, ld, wp, an, ae, meSpeak, tts, player, ui, calls, jobs>>

\* otherwise: wilkinsonShift, qrStep, iter++
EigenQRStep ==
    /\ InnerLoop /\ qr.m >= 2
    /\ qr' = [qr EXCEPT !.iter = @ + 1]
    /\ UNCHANGED <<pm, pr, ld, wp, an, ae, meSpeak, tts, player, ui, calls, jobs>>

\* EigenCap that pushes nothing
EigenCap_dropsDiagonal ==
    /\ qr.pc = "outer" /\ qr.m > 0 /\ qr.iter >= maxIter
    /\ qr' = [qr EXCEPT !.m = 0]
    /\ UNCHANGED <<pm, pr, ld, wp, an, ae, meSpeak, tts, player, ui, calls, jobs>>

\* if (iter >= maxIter): the diagonal of the remaining block
EigenCap ==
    /\ qr.pc = "outer" /\ qr.m > 0 /\ qr.iter >= maxIter
    /\ qr' = [qr EXCEPT !.eigenvalues = @ \o [i \in 1..qr.m |-> Real(i - 1)], !.m = 0]
    /\ UNCHANGED <<pm, pr, ld, wp, an, ae, meSpeak, tts, player, ui, calls, jobs>>

\* while (m > 0) is false: return eigenvalues
EigenReturn ==
    /\ qr.pc = "outer" /\ qr.m <= 0
    /\ qr' = [qr EXCEPT !.pc = "returned"]
    /\ UNCHANGED <<pm, pr, ld, wp, an, ae, meSpeak, tts, player, ui, calls, jobs>>

NextEigen ==
    EigenLast \/ EigenDeflate \/ EigenComplexPair \/ EigenQRStep \/ EigenCap \/ EigenReturn

SpecEigen == InitEigen /\ [][NextEigen]_vars

\* computeEigenvalues is straight-line code: it always takes its next step
FairSpecEigen == SpecEigen /\ WF_vars(NextEigen)

(***************************************************************************)
(* Exact fractions.  The LPC numerics below are followed in exact          *)
(* arithmetic: a fraction is [n, d] in lowest terms with d > 0.            *)
(***************************************************************************)
RECURSIVE GCD(_, _)
GCD(a, b) == IF b = 0 THEN a ELSE GCD(b, a % b)

Magnitude(k) == IF k < 0 THEN -k ELSE k
Lowest(x, y, g) ==
    IF g = 0 THEN [n |-> 0, d |-> 1]
    ELSE [n |-> (IF y < 0 THEN -x ELSE x) \div g, d |-> Magnitude(y) \div g]
Q(n, d) == The({The({Lowest(x, y, g) : g \in {GCD(Magnitude(x), Magnitude(y))}}) :
                    x \in {n}, y \in {d}})
QInt(k) == [n |-> k, d |-> 1]
QAdd(a, b) == The({Q(x.n * y.d + y.n * x.d, x.d * y.d) : x \in {a}, y \in {b}})
QNeg(a) == The({[n |-> -x.n, d |-> x.d] : x \in {a}})
QSub(a, b) == QAdd(a, QNeg(b))
QMul(a, b) == The({Q(x.n * y.n, x.d * y.d) : x \in {a}, y \in {b}})
QDiv(a, b) == The({Q(x.n * y.d, x.d * y.n) : x \in {a}, y \in {b}})
QLt(a, b) == The({x.n * y.d < y.n * x.d : x \in {a}, y \in {b}})
QLe(a, b) == ~QLt(b, a)
QAbs(a) == The({[n |-> Magnitude(x.n), d |-> x.d] : x \in {a}})
QZero == QInt(0)
QOne == QInt(1)

\* x < 1e-10 * y in formant-player.js.  Every fraction met below has |n| and
\* d under 10^5, so a nonzero x is at least 1e-5 and 1e-10 * y is under 1e-5.
Below1em10Of(x, y) == x.n <= 0 /\ (x.n < 0 \/ y.n > 0)

RECURSIVE QSum(_, _)
\* the sum of term[k] over k in S
QSum(term, S) ==
    IF S = {} THEN QZero
    ELSE The({QAdd(term[k], QSum(term, S \ {k})) : k \in {CHOOSE k \in S : TRUE}})

(***************************************************************************)
(* findPolynomialRoots.  A matrix is a sequence of rows; index i of the    *)
(* source is index i + 1 here.                                            *)
(***************************************************************************)
\* companion[i][i + 1] = 1 (i < n - 1); companion[i][0] = -coeffs[n - i]
companion(coeffs) ==
    LET n == Len(coeffs) - 1
    IN  [i \in 1..n |-> [j \in 1..n |->
            IF j = 1 THEN QNeg(coeffs[n - (i - 1) + 1])
            ELSE IF j = i + 1 THEN QOne ELSE QZero]]

\* the rows and columns of M other than row 1 and column j
Without(M, j) ==
    [r \in 1..(Len(M) - 1) |-> [c \in 1..(Len(M) - 1) |->
        M[r + 1][IF c < j THEN c ELSE c + 1]]]

RECURSIVE Det(_)
\* the determinant, by expansion along the first row
Det(M) ==
    IF Len(M) = 0 THEN QOne
    ELSE QSum([j \in 1..Len(M) |->
                  QMul(IF j % 2 = 1 THEN M[1][j] ELSE QNeg(M[1][j]), Det(Without(M, j)))],
              1..Len(M))

RECURSIVE Ascending(_)
\* the elements of a set of numbers in ascending order
Ascending(S) ==
    IF S = {} THEN <<>>
    ELSE LET least == CHOOSE x \in S : \A y \in S : x <= y
         IN  <<least>> \o Ascending(S \ {least})

\* the principal submatrix of M on the index set S
Principal(M, S) ==
    LET idx == Ascending(S)
    IN  [r \in 1..Len(idx) |-> [c \in 1..Len(idx) |-> M[idx[r]][idx[c]]]]

\* the coefficients c[1..n] of det(zI - M) = z^n + c[1] z^(n-1) + ... + c[n]:
\* c[k] is (-1)^k times the sum of the k x k principal minors
CharPoly(M) ==
    [k \in 1..Len(M) |->
        LET subsets == {S \in SUBSET (1..Len(M)) : Cardinality(S) = k}
            minors == QSum([S \in subsets |-> Det(Principal(M, S))], subsets)
        IN  IF k % 2 = 0 THEN minors ELSE QNeg(minors)]

Trace(M) == QSum([i \in 1..Len(M) |-> M[i][i]], 1..Len(M))

\* the coefficient values the polynomials are drawn from: z^2 - z + 0.34 has
\* the roots 0.5 +/- 0.3i
CoeffValues == {QInt(-1), QZero, QInt(1), Q(34, 100), QInt(2)}

RECURSIVE Vectors(_, _)
\* the sequences of length n over S
Vectors(S, n) ==
    IF n = 0 THEN {<<>>} ELSE {Append(v, x) : v \in Vectors(S, n - 1), x \in S}

InitRoots ==
    /\ \E n \in 0..MaxN : \E tail \in Vectors(CoeffValues, n) :
           pr = Poly("called", <<QOne>> \o tail)
    /\ pm = Mapper("new", <<>>)
    /\ qr = Eigen("new", 0)
    /\ ld = Levinson("new", <<>>, 0)
    /\ wp = Synth("new", null)
    /\ an = Analysis("new", null)
    /\ NotStarted

\* if (n <= 0) return []; otherwise build the companion matrix
BuildCompanion ==
    /\ pr.pc = "called"
    /\ pr' = IF Len(pr.coeffs) - 1 <= 0 THEN [pr EXCEPT !.pc = "returned"]
             ELSE [pr EXCEPT !.pc = "built", !.companion = companion(pr.coeffs)]
    /\ UNCHANGED <<pm, qr, ld, wp, an, ae, meSpeak, tts, player, ui, calls, jobs>>

\* a value the model does not follow
Unevaluated == [unevaluated |-> TRUE]
Complex(re, imSquared, sign) == [real |-> re, imagSquared |-> imSquared, sign |-> sign]
RealRoot(re) == Complex(re, QZero, 0)

\* computeEigenvalues on a 1 x 1 or 2 x 2 matrix H, up to the first QR step:
\* deflation when the subdiagonal entry is negligible, a conjugate pair when
\* the block's discriminant is negative, and otherwise QR steps, which keep
\* the eigenvalues of a block with disc > 0 real (their values are left open)
eigenvaluesSmall(H) ==
    IF Len(H) = 1 THEN <<RealRoot(H[1][1])>>
    ELSE LET trace == QAdd(H[1][1], H[2][2])
             det == QSub(QMul(H[1][1], H[2][2]), QMul(H[1][2], H[2][1]))
             disc == QSub(QMul(trace, trace), QMul(QInt(4), det))
         IN  IF Below1em10Of(QAbs(H[2][1]), QAdd(QAbs(H[1][1]), QAbs(H[2][2])))
                 THEN <<RealRoot(H[2][2]), RealRoot(H[1][1])>>
             ELSE IF QLt(disc, QZero)
                 THEN <<Complex(QDiv(trace, QInt(2)), QDiv(QNeg(disc), QInt(4)), 1),
                        Complex(QDiv(trace, QInt(2)), QDiv(QNeg(disc), QInt(4)), -1)>>
             ELSE <<RealRoot(Unevaluated), RealRoot(Unevaluated)>>

\* return this.computeEigenvalues(companion, n); for n > 2 the eigenvalues
\* are left open (the control flow is SpecEigen's)
SolveCompanion ==
    /\ pr.pc = "built"
    /\ pr' = [pr EXCEPT !.pc = "returned",
                        !.roots = IF Len(pr.companion) <= 2 THEN eigenvaluesSmall(pr.companion)
                                  ELSE [i \in 1..Len(pr.companion) |->
                                           Complex(Unevaluated, Unevaluated, Unevaluated)]]
    /\ UNCHANGED <<pm, qr, ld, wp, an, ae, meSpeak, tts, player, ui, calls, jobs>>

NextRoots == BuildCompanion \/ SolveCompanion

SpecRoots == InitRoots /\ [][NextRoots]_vars

(***************************************************************************)
(* levinsonDurbin, one action per loop round.  Index j of the source       *)
(* arrays r, a and aTemp is index j + 1 here.                              *)
(***************************************************************************)
MaxOrder == 3

\* the values r[0] and r[1..p] are drawn from: they include vectors that are
\* not positive definite, for which e reaches 0 or falls below it
PowerValues == {QZero, QInt(1), QInt(2)}
LagValues == {QInt(-2), QInt(-1), QZero, QInt(1), QInt(2)}

InitLevinson ==
    /\ \E p \in 0..MaxOrder : \E r0 \in PowerValues : \E lags \in Vectors(LagValues, p) :
           ld = Levinson("called", <<r0>> \o lags, p)
    /\ pm = Mapper("new", <<>>)
    /\ qr = Eigen("new", 0)
    /\ pr = Poly("new", <<>>)
    /\ wp = Synth("new", null)
    /\ an = Analysis("new", null)
    /\ NotStarted

NaN == [nan |-> TRUE]
\* Math.sqrt, kept as the number under the root
Sqrt(x) == IF QLt(x, QZero) THEN NaN ELSE [squared |-> x]
QMax(x, y) == IF QLt(x, y) THEN y ELSE x

\* a = new Float64Array(p + 1); a[0] = 1.0; if (r[0] < 1e-10) return
\* { coeffs: a, gain: 0 }; let e = r[0]
LevinsonStart ==
    /\ ld.pc = "called"
    /\ LET a == [j \in 1..(ld.p + 1) |-> IF j = 1 THEN QOne ELSE QZero]
       IN  ld' = IF Below1em10Of(ld.r[1], QOne)
                     THEN [ld EXCEPT !.pc = "returned", !.a = a, !.gain = Sqrt(QZero)]
                 ELSE [ld EXCEPT !.pc = "loop", !.a = a, !.e = ld.r[1], !.i = 1]
    /\ UNCHANGED <<pm, qr, pr, wp, an, ae, meSpeak, tts, player, ui, calls, jobs>>

\* let lambda = r[i]; lambda -= a[j] * r[i - j] (1 <= j < i); lambda /= e
reflection(r, a, e, i) ==
    QDiv(QSub(r[i + 1], QSum([j \in 1..(i - 1) |-> QMul(a[j + 1], r[i - j + 1])], 1..(i - 1))), e)

\* updated with the sign of the correction reversed
updated_plus(a, lambda, i) ==
    [j \in 1..Len(a) |->
        IF j - 1 = i THEN lambda
        ELSE IF j - 1 >= 1 /\ j - 1 < i THEN QAdd(a[j], QMul(lambda, a[i - (j - 1) + 1]))
        ELSE a[j]]

\* aTemp[i] = lambda; aTemp[j] = a[j] - lambda * a[i - j] (1 <= j < i);
\* a[j] = aTemp[j] (1 <= j <= i)
updated(a, lambda, i) ==
    [j \in 1..Len(a) |->
        IF j - 1 = i THEN lambda
        ELSE IF j - 1 >= 1 /\ j - 1 < i THEN QSub(a[j], QMul(lambda, a[i - (j - 1) + 1]))
        ELSE a[j]]

\* one round of for (let i = 1; i <= p; i++), with e *= (1 - lambda * lambda)
\* and if (e <= 0) break
LevinsonRound ==
    /\ ld.pc = "loop" /\ ld.i <= ld.p
    /\ \E lambda \in {reflection(ld.r, ld.a, ld.e, ld.i)} :
       \E e \in {QMul(ld.e, QSub(QOne, QMul(lambda, lambda)))} :
           ld' = [ld EXCEPT !.a = updated(ld.a, lambda, ld.i), !.e = e,
                            !.errors = Append(@, e),
                            !.pc = IF QLe(e, QZero) THEN "broke" ELSE "loop",
                            !.i = IF QLe(e, QZero) THEN @ ELSE @ + 1]
    /\ UNCHANGED <<pm, qr, pr, wp, an, ae, meSpeak, tts, player, ui, calls, jobs>>

\* gainOf without the clamp
gainOf_unclamped(e) == Sqrt(e)

\* Math.sqrt(Math.max(e, 0))
gainOf(e) == Sqrt(QMax(e, QZero))

\* after the loop: const gain = ...; return { coeffs: a, gain }
LevinsonReturn ==
    /\ ld.pc = "broke" \/ (ld.pc = "loop" /\ ld.i > ld.p)
    /\ ld' = [ld EXCEPT !.pc = "returned", !.gain = gainOf(ld.e)]
    /\ UNCHANGED <<pm, qr, pr, wp, an, ae, meSpeak, tts, player, ui, calls, jobs>>

NextLevinson == LevinsonStart \/ LevinsonRound \/ LevinsonReturn

SpecLevinson == InitLevinson /\ [][NextLevinson]_vars

(***************************************************************************)
(* analyze, one action per step of its frame loop, on one LPCAnalyzer      *)
(* that may be used for a second run.  A frame is given by the roots of    *)
(* its LPC polynomial, as in FrameRoots.                                   *)
(***************************************************************************)
MaxFrames == 2

\* the root lists a frame may have: no complex root (a silent frame), the
\* two kinds of "voiced" frame, four formants in descending order, values on
\* the edges of the accepted ranges, a root outside the unit circle, and a
\* single resonance at 2600 Hz
RootLists ==
    {<<>>, FrameRoots("voiced", 0), FrameRoots("voiced", 1),
     <<Root(3400, 900, 300, TRUE), Root(2600, 100, 200, TRUE),
       Root(1200, 600, 150, TRUE), Root(700, 200, 100, TRUE)>>,
     <<Root(90, 500, 100, TRUE), Root(4000, 500, 100, TRUE), Root(1000, 500, 600, TRUE),
       Root(1100, 50000, 0, TRUE), Root(2000, 400, 599, TRUE)>>,
     <<Root(1000, 50000, -20, TRUE), Root(500, 300, 100, TRUE)>>,
     <<Root(2600, 400, 200, TRUE), Root(2600, 400, 200, FALSE)>>}

InitAnalysis ==
    /\ an = Analysis("called", null)
    /\ pm = Mapper("new", <<>>)
    /\ qr = Eigen("new", 0)
    /\ pr = Poly("new", <<>>)
    /\ ld = Levinson("new", <<>>, 0)
    /\ wp = Synth("new", null)
    /\ NotStarted

\* AnalyzeStart with prevFreqs and prevMags kept from the run before
AnalyzeStart_keepsState ==
    /\ an.pc = "called"
    /\ \E n \in 0..MaxFrames :
           an' = [an EXCEPT !.pc = "frame", !.numHops = n, !.hop = 0,
                            !.prevFreqs = IF @ = null THEN <<500, 1500, 2500>> ELSE @,
                            !.prevMags = IF @ = null THEN <<0, 0, 0>> ELSE @,
                            !.input = <<>>, !.points = <<>>, !.returned = null]
    /\ UNCHANGED <<pm, qr, pr, ld, wp, ae, meSpeak, tts, player, ui, calls, jobs>>

\* analyze up to its loop: numHops follows from the length of the resampled
\* audio; let prevFreqs = [500, 1500, 2500]; let prevMags = [0, 0, 0]
AnalyzeStart ==
    /\ an.pc = "called"
    /\ \E n \in 0..MaxFrames :
           an' = [an EXCEPT !.pc = "frame", !.numHops = n, !.hop = 0,
                            !.prevFreqs = <<500, 1500, 2500>>, !.prevMags = <<0, 0, 0>>,
                            !.input = <<>>, !.points = <<>>, !.returned = null]
    /\ UNCHANGED <<pm, qr, pr, ld, wp, ae, meSpeak, tts, player, ui, calls, jobs>>

\* the loop body up to const { frequencies, magnitudes } = coeffsToFormants(...)
FrameFormants ==
    /\ an.pc = "frame" /\ an.hop < an.numHops
    /\ \E roots \in RootLists :
           an' = [an EXCEPT !.pc = "smooth", !.roots = roots,
                            !.formants = coeffsToFormants(roots),
                            !.input = Append(@, roots)]
    /\ UNCHANGED <<pm, qr, pr, ld, wp, ae, meSpeak, tts, player, ui, calls, jobs>>

\* the smoothing loop over i = 0, 1, 2 and the three pushes
FrameSmooth ==
    /\ an.pc = "smooth"
    /\ \E s \in {[i \in 1..3 |-> Smooth(an.prevFreqs[i], an.prevMags[i], an.formants, i)]} :
           an' = [an EXCEPT !.pc = "frame", !.hop = @ + 1,
                            !.prevFreqs = <<s[1][1], s[2][1], s[3][1]>>,
                            !.prevMags = <<s[1][2], s[2][2], s[3][2]>>,
                            !.points = Append(@, Frame(an.hop, <<s[1][1], s[2][1], s[3][1]>>,
                                                       <<s[1][2], s[2][2], s[3][2]>>))]
    /\ UNCHANGED <<pm, qr, pr, ld, wp, ae, meSpeak, tts, player, ui, calls, jobs>>

\* after the loop: this.normalizeAmplitudes(trajectories); return trajectories
AnalyzeReturn ==
    /\ an.pc = "frame" /\ an.hop >= an.numHops
    /\ an' = [an EXCEPT !.pc = "returned", !.returned = normalizeAmplitudes(an.points)]
    /\ UNCHANGED <<pm, qr, pr, ld, wp, ae, meSpeak, tts, player, ui, calls, jobs>>

\* analyze is called once more on the same analyzer
AnalyzeAgain ==
    /\ an.pc = "returned" /\ an.earlier = null
    /\ an' = [an EXCEPT !.pc = "called",
                        !.earlier = [input |-> an.input, returned |-> an.returned]]
    /\ UNCHANGED <<pm, qr, pr, ld, wp, ae, meSpeak, tts, player, ui, calls, jobs>>

NextAnalysis ==
    AnalyzeStart \/ FrameFormants \/ FrameSmooth \/ AnalyzeReturn \/ AnalyzeAgain

SpecAnalysis == InitAnalysis /\ [][NextAnalysis]_vars

(***************************************************************************)
(* synthesize from the result of meSpeak.speak on, with parseWavToFloat32  *)
(* one action per round of its chunk loop.  The result is null or an array *)
(* of bytes (kept in a record); index i of the source array is index i + 1 *)
(* here.                                                                   *)
(***************************************************************************)
MaxChunks == 2

\* v as four little-endian bytes of a 32-bit two's-complement field
LE32(v) ==
    LET w == IF v < 0 THEN v + 1073741824 + 1073741824 ELSE v
        top == (w \div 16777216) + (IF v < 0 THEN 128 ELSE 0)
    IN  <<w % 256, (w \div 256) % 256, (w \div 65536) % 256, top>>

Bytes(n, b) == [i \in 1..n |-> b]

ID_RIFF == <<82, 73, 70, 70>>
ID_WAVE == <<87, 65, 86, 69>>
ID_fmt == <<102, 109, 116, 32>>
ID_data == <<100, 97, 116, 97>>
ID_LIST == <<76, 73, 83, 84>>

\* a chunk: its id, its size field and as many payload bytes as it really has
Chunk(id, size, payload) == id \o LE32(size) \o payload

\* a PCM format chunk for 22050 Hz mono
FmtChunk == Chunk(ID_fmt, 16, <<1, 0, 1, 0>> \o LE32(22050) \o LE32(44100) \o <<2, 0, 16, 0>>)

\* size fields (negative when the top byte is >= 0x80) and payload lengths
SizeFields == {-20, -9, -8, 0, 1, 4}
PayloadLengths == {0, 1, 4}

ChunkChoices ==
    {FmtChunk} \cup {Chunk(id, size, Bytes(n, 16)) :
                        id \in {ID_LIST, ID_data}, size \in SizeFields, n \in PayloadLengths}

RECURSIVE Flat(_)
Flat(chunks) == IF chunks = <<>> THEN <<>> ELSE Head(chunks) \o Flat(Tail(chunks))

RiffFile(chunks) ==
    The({ID_RIFF \o LE32(4 + Len(body)) \o ID_WAVE \o body : body \in {Flat(chunks)}})

\* what meSpeak.speak may return: nothing, an empty array, or a RIFF file
\* with up to MaxChunks chunks
SpeakArrays ==
    {null, [bytes |-> <<>>]} \cup
    UNION {{[bytes |-> RiffFile(chunks)] : chunks \in Vectors(ChunkChoices, n)} :
              n \in 0..MaxChunks}

InitSynth ==
    /\ \E result \in SpeakArrays : wp = Synth("called", result)
    /\ pm = Mapper("new", <<>>)
    /\ qr = Eigen("new", 0)
    /\ pr = Poly("new", <<>>)
    /\ ld = Levinson("new", <<>>, 0)
    /\ an = Analysis("new", null)
    /\ NotStarted

\* if (!result || result.length === 0) reject; otherwise parseWavToFloat32
\* starts with offset = 12, dataOffset = 0, dataSize = 0
CheckResult ==
    /\ wp.pc = "called"
    /\ wp' = IF wp.result = null \/ wp.result.bytes = <<>>
                 THEN [wp EXCEPT !.pc = "rejected", !.out = rejected]
             ELSE [wp EXCEPT !.pc = "scan", !.offset = 12]
    /\ UNCHANGED <<pm, qr, pr, ld, an, ae, meSpeak, tts, player, ui, calls, jobs>>

\* bytes[i] under | and under String.fromCharCode: undefined counts as 0
ByteAt(bytes, i) == IF i >= 0 /\ i < Len(bytes) THEN bytes[i + 1] ELSE 0

\* b0 | (b1 << 8) | (b2 << 16) | (b3 << 24), a signed 32-bit value
Int32At(bytes, i) ==
    LET top == ByteAt(bytes, i + 3)
    IN  ByteAt(bytes, i) + 256 * ByteAt(bytes, i + 1) + 65536 * ByteAt(bytes, i + 2)
          + 16777216 * (IF top >= 128 THEN top - 256 ELSE top)

IdAt(bytes, i) == <<ByteAt(bytes, i), ByteAt(bytes, i + 1), ByteAt(bytes, i + 2), ByteAt(bytes, i + 3)>>

\* one round of while (offset < bytes.length - 8)
ScanChunk ==
    /\ wp.pc = "scan" /\ wp.offset < Len(wp.result.bytes) - 8
    /\ LET chunkId == IdAt(wp.result.bytes, wp.offset)
           chunkSize == Int32At(wp.result.bytes, wp.offset + 4)
           rate == IF chunkId = ID_fmt THEN Int32At(wp.result.bytes, wp.offset + 12)
                   ELSE wp.sampleRate
       IN  wp' = IF chunkId = ID_data
                     THEN [wp EXCEPT !.pc = "read", !.sampleRate = rate,
                                     !.dataOffset = wp.offset + 8, !.dataSize = chunkSize]
                 ELSE [wp EXCEPT !.sampleRate = rate,
                                 !.offset = @ + 8 + chunkSize
                                              + (IF chunkSize % 2 # 0 THEN 1 ELSE 0)]
    /\ UNCHANGED <<pm, qr, pr, ld, an, ae, meSpeak, tts, player, ui, calls, jobs>>

\* the loop condition fails
ScanEnd ==
    /\ wp.pc = "scan" /\ ~(wp.offset < Len(wp.result.bytes) - 8)
    /\ wp' = [wp EXCEPT !.pc = "read"]
    /\ UNCHANGED <<pm, qr, pr, ld, an, ae, meSpeak, tts, player, ui, calls, jobs>>

\* if (dataOffset === 0 || dataSize === 0) throw; numSamples =
\* Math.floor(dataSize / 2); new Float32Array(numSamples) raises a RangeError
\* for a negative length; the samples are read and synthesize resolves
ReadSamples ==
    /\ wp.pc = "read"
    /\ wp' = IF wp.dataOffset = 0 \/ wp.dataSize = 0 \/ wp.dataSize \div 2 < 0
                 THEN [wp EXCEPT !.pc = "rejected", !.out = rejected]
             ELSE [wp EXCEPT !.pc = "resolved", !.out = [n |-> wp.dataSize \div 2]]
    /\ UNCHANGED <<pm, qr, pr, ld, an, ae, meSpeak, tts, player, ui, calls, jobs>>

NextSynth == CheckResult \/ ScanChunk \/ ScanEnd \/ ReadSamples

SpecSynth == InitSynth /\ [][NextSynth]_vars

\* the promise executor of synthesize is straight-line code: it always takes
\* its next step
FairSpecSynth == SpecSynth /\ WF_vars(NextSynth)

(***************************************************************************)
(* Playback: the three play handlers of the interface, FormantPlayer's     *)
(* playSinewave and playOriginal, and the AudioEngine.  A handler runs up  *)
(* to its first await in the step of the click; the rest runs as a promise *)
(* job, at once when the AudioContext is running and after resume() has    *)
(* resolved when it is suspended.                                          *)
(***************************************************************************)
MaxPlays == 3

\* the number of utterances stored so far: every resolved call stores one
ResolvedCount == Cardinality({k \in 1..Len(calls) : calls[k].out = "resolved"})

disableAllButtons(u) ==
    [u EXCEPT !.generateBtnDisabled = TRUE, !.playSinewaveDisabled = TRUE,
              !.revealOriginalDisabled = TRUE, !.replaySinewaveDisabled = TRUE]

\* UIController.showTranscript: getTranscript() returns currentText
showTranscript(u) ==
    IF player.currentText # <<>> THEN [u EXCEPT !.transcriptHidden = FALSE] ELSE u

\* AudioEngine.stop: stopOscillators drops the oscillators and their gains
stop(a) ==
    [a EXCEPT !.oscillatorGains = [f \in Formants |-> null], !.current = 0,
              !.isPlaying = FALSE]

\* The gain of each formant after createOscillators and
\* scheduleFormantTrajectory: value 0 when the trajectory is empty, else the
\* amplitudes of the points times muteMultiplier.
scheduleFormantTrajectory(a, formantsData) ==
    [f \in Formants |->
        IF Len(formantsData[f]) = 0 THEN [mode |-> "initial", level |-> 0]
        ELSE [mode |-> "trajectory", level |-> IF a.formantMuted[f] THEN 0 ELSE 1]]

\* AudioEngine.playSinewave after await this.init()
playSinewave(a, formantsData) ==
    LET s  == IF a.isPlaying THEN stop(a) ELSE a
        id == a.plays + 1
    IN  [s EXCEPT !.oscillatorGains = scheduleFormantTrajectory(s, formantsData),
                  !.formantsData = formantsData, !.plays = id, !.current = id,
                  !.isPlaying = TRUE, !.timers = @ \cup {id}]

\* AudioEngine.setFormantEnabled: cancelScheduledValues, then a ramp to 1 or 0
setFormantEnabled(a, f, enabled) ==
    [a EXCEPT !.formantMuted[f] = ~enabled,
              !.oscillatorGains[f] =
                  IF @ = null THEN @
                  ELSE [mode |-> "ramp", level |-> IF enabled THEN 1 ELSE 0]]

\* await this.audioEngine.init() in the engine a: the continuation is queued
\* when the context is running, and waits for resume() when it is suspended
AwaitInit(a, job) ==
    IF a.contextState = "suspended"
    THEN /\ ae' = [a EXCEPT !.waiting = Append(@, job)]
         /\ jobs' = jobs
    ELSE /\ ae' = a
         /\ jobs' = Append(jobs, job)

\* handlePlaySinewave (h = 1) and handleReplaySinewave (h = 2) up to the
\* await in player.playSinewave; without an utterance playSinewave throws
\* and the catch clause enables the buttons
ClickPlay(h) ==
    /\ Idle /\ ae.clicks < MaxPlays
    /\ IF player.utteranceData = null
       THEN /\ ui' = updateButtonStates(ui, isPlaying(ae))
            /\ ae' = [ae EXCEPT !.clicks = @ + 1]
            /\ jobs' = jobs
       ELSE /\ ui' = disableAllButtons(ui)
            /\ AwaitInit([ae EXCEPT !.clicks = @ + 1], Job("play", h))
    /\ UNCHANGED <<pm, qr, pr, ld, wp, an, meSpeak, tts, player, calls>>

ClickPlaySinewave == ~ui.playSinewaveDisabled /\ ClickPlay(1)

ClickReplaySinewave == ~ui.replaySinewaveDisabled /\ ClickPlay(2)

\* player.playSinewave after its await, audioEngine.playSinewave, and the
\* rest of the handler: this.state = ...; this.updateButtonStates()
PlaySinewaveRuns ==
    /\ Head1("play")
    /\ \E a \in {[playSinewave(ae, player.utteranceData.formants)
                     EXCEPT !.sineAt = ResolvedCount]} :
           /\ ae' = a
           /\ ui' = updateButtonStates(
                  [ui EXCEPT !.state = IF Head(jobs).id = 1 THEN "first-listen"
                                       ELSE "replay"], isPlaying(a))
    /\ jobs' = Tail(jobs)
    /\ UNCHANGED <<pm, qr, pr, ld, wp, an, meSpeak, tts, player, calls>>

\* the catch clause of handleRevealOriginal
revealFailed(u, playing) ==
    updateButtonStates([showTranscript(u) EXCEPT !.hasHeardOriginal = TRUE,
                                                 !.state = "revealed"], playing)

\* handleRevealOriginal up to the await in player.playOriginal
ClickRevealOriginal ==
    /\ Idle /\ ae.clicks < MaxPlays /\ ~ui.revealOriginalDisabled
    /\ \E a \in {[ae EXCEPT !.clicks = @ + 1, !.revealAt = ResolvedCount]} :
           IF player.currentText = <<>>
           THEN /\ ui' = revealFailed(ui, isPlaying(a))
                /\ ae' = a
                /\ jobs' = jobs
           ELSE /\ ui' = showTranscript(disableAllButtons(ui))
                /\ AwaitInit(a, Job("original", 0))
    /\ UNCHANGED <<pm, qr, pr, ld, wp, an, meSpeak, tts, player, calls>>

\* player.playOriginal after its await.  With captured audio it calls
\* this.audioEngine.playOriginalBuffer, which AudioEngine does not define:
\* the call raises a TypeError, playOriginal rejects and the catch clause of
\* the handler runs.  Without captured audio playOriginalWebSpeech speaks
\* currentText and stays pending until the utterance ends.
PlayOriginalRuns ==
    /\ Head1("original")
    /\ IF player.utteranceData # null /\ player.utteranceData.originalAudio # null
       THEN /\ ae' = [ae EXCEPT !.original =
                         [captured |-> TRUE, path |-> "buffer", out |-> "rejected"]]
            /\ ui' = revealFailed(ui, isPlaying(ae))
       ELSE /\ ae' = [ae EXCEPT !.speaking = TRUE, !.original =
                         [captured |-> FALSE, path |-> "webspeech", out |-> "pending"]]
            /\ ui' = ui
    /\ jobs' = Tail(jobs)
    /\ UNCHANGED <<pm, qr, pr, ld, wp, an, meSpeak, tts, player, calls>>

\* utterance.onend (onPlaybackEnd, resolve, and the rest of the handler) or
\* utterance.onerror (reject, and the catch clause of the handler)
SpeechEnds ==
    /\ Idle /\ ae.speaking
    /\ \E ended \in BOOLEAN :
           \E a \in {[ae EXCEPT !.speaking = FALSE,
                         !.original.out = IF ended THEN "resolved" ELSE "rejected"]} :
               /\ ae' = a
               /\ ui' = IF ended
                        THEN updateButtonStates(
                                 [ui EXCEPT !.hasHeardOriginal = TRUE,
                                            !.state = "revealed"], isPlaying(a))
                        ELSE revealFailed(ui, isPlaying(a))
    /\ UNCHANGED <<pm, qr, pr, ld, wp, an, meSpeak, tts, player, calls, jobs>>

\* the promises of audioContext.resume() resolve
ResumeResolves ==
    /\ Idle /\ ae.waiting # <<>>
    /\ ae' = [ae EXCEPT !.contextState = "running", !.waiting = <<>>]
    /\ jobs' = jobs \o ae.waiting
    /\ UNCHANGED <<pm, qr, pr, ld, wp, an, meSpeak, tts, player, ui, calls>>

\* the timer set by playSinewave fires for playback p: handlePlaybackEnd of
\* the engine, and through onPlaybackEnd that of the interface
EndTimerFires ==
    /\ Idle
    /\ \E p \in ae.timers :
           \E a \in {[ae EXCEPT !.isPlaying = FALSE, !.timers = @ \ {p}]} :
               /\ ae' = a
               /\ ui' = updateButtonStates(ui, isPlaying(a))
    /\ UNCHANGED <<pm, qr, pr, ld, wp, an, meSpeak, tts, player, calls, jobs>>

PlayEvent ==
    \/ ClickPlaySinewave \/ ClickRevealOriginal \/ ClickReplaySinewave
    \/ PlaySinewaveRuns \/ PlayOriginalRuns
    \/ ResumeResolves \/ SpeechEnds \/ EndTimerFires

InitPlay == Constructed /\ ae \in {Engine("suspended"), Engine("running")}

NextPlay == NextUI \/ PlayEvent

SpecPlay == InitPlay /\ [][NextPlay]_vars

(***************************************************************************)
(* The AudioEngine driven through its own methods: playSinewave with the   *)
(* formants of an utterance, stop, setFormantEnabled (the formant toggles  *)
(* of the interface), and the end timers.                                  *)
(***************************************************************************)
EngineInputs ==
    {PhonemeMapped[T_b].utterance,
     Analyzed[<<[n |-> 2200, wave |-> "voiced"], 22050>>].utterance}

EnginePlaySinewave ==
    /\ Idle /\ ae.plays < MaxPlays
    /\ \E u \in EngineInputs : ae' = playSinewave(ae, u.formants)
    /\ UNCHANGED <<pm, qr, pr, ld, wp, an, meSpeak, tts, player, ui, calls, jobs>>

EngineStop ==
    /\ Idle
    /\ ae' = stop(ae)
    /\ UNCHANGED <<pm, qr, pr, ld, wp, an, meSpeak, tts, player, ui, calls, jobs>>

ToggleFormant ==
    /\ Idle
    /\ \E f \in Formants, enabled \in BOOLEAN : ae' = setFormantEnabled(ae, f, enabled)
    /\ UNCHANGED <<pm, qr, pr, ld, wp, an, meSpeak, tts, player, ui, calls, jobs>>

NextEngine == EnginePlaySinewave \/ EngineStop \/ ToggleFormant \/ EndTimerFires

SpecEngine == Init /\ [][NextEngine]_vars

TypeOK ==
    /\ Len(calls) <= MaxCalls
    /\ tts.initPromise \in {"null", "pending", "resolved", "rejected"}
    /\ \A k \in 1..Len(calls) : calls[k].out \in {"pending", "resolved", "rejected"}

(***************************************************************************)
(* Properties.                                                             *)
(***************************************************************************)
Settled(k) == calls[k].out # "pending"
FromAnalyze(k) == calls[k].result # null /\ calls[k].result # rejected
FellBack(k) == calls[k].path = "lpc" /\ (calls[k].audio = rejected \/ calls[k].result = rejected)
NoWords(text) == \A w \in {Split(Normalize(text))[i] : i \in 1..Len(Split(Normalize(text)))} : w = <<>>
IsBuffer(a) == a # null /\ a # rejected

\* C1: every generateFromText call resolves, never rejects, with one
\* utterance tagged 'lpc' exactly when its formants came from analyze and
\* 'phoneme-mapping' exactly when they came from textToTrajectory.
C1_AlwaysResolvesTagged ==
    \A k \in 1..Len(calls) :
        /\ calls[k].out # "rejected"
        /\ calls[k].out = "resolved" =>
               /\ calls[k].returned # null
               /\ calls[k].returned.analysisMethod = "lpc" <=> FromAnalyze(k)
               /\ calls[k].returned.analysisMethod = "phoneme-mapping" <=> ~FromAnalyze(k)

\* C2: when synthesize rejects or analyze throws during a call, the call
\* completes with utteranceData being the phoneme-mapping result of its text.
C2_FallbackOnFailure ==
    [][\A k \in 1..Len(calls) :
          (calls[k].out = "pending" /\ calls'[k].out # "pending" /\ FellBack(k)) =>
              /\ calls'[k].out = "resolved"
              /\ ~PhonemeMapped[calls[k].text].threw
              /\ player'.utteranceData = PhonemeMapped[calls[k].text].utterance
              /\ player'.utteranceData.transcript = calls[k].text
              /\ player'.utteranceData.originalAudio = null
              /\ player'.utteranceData.analysisMethod = "phoneme-mapping"]_vars

\* C3: when call B starts while an earlier call A still awaits the waveform
\* source, then once both have settled utteranceData is the result of B.
C3_LaterCallWins ==
    \A a \in 1..Len(calls), b \in 1..Len(calls) :
        (/\ a \in calls[b].awaiting /\ b = Len(calls)
         /\ Settled(a) /\ Settled(b)) =>
            /\ player.utteranceData # null
            /\ player.utteranceData = calls[b].returned

\* C4: with calls started by the interface only, at most one generate call
\* is in flight at any time.
C4_AtMostOneInFlight == Cardinality(InFlight) <= 1

C4_Witness ==
    /\ Len(calls) = 2
    /\ calls[1].src = "ui" /\ calls[1].path = "lpc" /\ Settled(1)
    /\ calls[2].src = "ui" /\ calls[2].path = "lpc" /\ calls[2].pc = "settle"

\* C5: an init that is pending settles (by the 10 s timer at the latest),
\* FormantPlayer.init then completes, every generate call settles, and a call
\* made after the timer rejected init takes the phoneme-mapping path.
C5_NoHang ==
    /\ (tts.initPromise = "pending") ~> (tts.initPromise # "pending")
    /\ (player.initPc \in {"audio", "tts", "settled"}) ~> (player.initPc = "done")
    /\ \A k \in 1..MaxCalls :
           (Len(calls) >= k /\ ~Settled(k)) ~> (Len(calls) >= k /\ Settled(k))
    /\ [](\A k \in 1..Len(calls) :
              (tts.timedOut /\ calls[k].initFailedAtStart) =>
                  calls[k].path = "phoneme" /\ Settled(k))
    /\ []((tts.timedOut /\ player.initPc = "done") => ~player.useLPCAnalysis)

C5_Witness ==
    /\ tts.timedOut /\ player.initPc = "done" /\ ~meSpeak.defined
    /\ \E k \in 1..Len(calls) :
           /\ calls[k].initFailedAtStart /\ calls[k].path = "phoneme"
           /\ calls[k].out = "resolved"

\* C6: a call that starts after TTSCapture.init failed, or while the capture
\* is not ready, goes straight to phoneme mapping: synthesize is not called
\* and the result is tagged 'phoneme-mapping', also when meSpeak is ready by
\* then.
C6_StraightToFallback ==
    \A k \in 1..Len(calls) :
        (calls[k].initFailedAtStart \/ ~calls[k].readyAtStart) =>
            /\ calls[k].path = "phoneme"
            /\ calls[k].audio = null /\ calls[k].result = null
            /\ calls[k].out = "resolved" =>
                   calls[k].returned.analysisMethod = "phoneme-mapping"

C6_Witness ==
    \E k \in 1..Len(calls) :
        /\ calls[k].initFailedAtStart /\ calls[k].readyAtStart
        /\ calls[k].path = "phoneme" /\ calls[k].out = "resolved"

\* C7: a generate call whose text has no words and that has no waveform is
\* surfaced as a failure and produces no trajectory.
C7_EmptyInputFails ==
    \A k \in 1..Len(calls) :
        (NoWords(calls[k].text) /\ Settled(k) /\ ~FromAnalyze(k)) =>
            calls[k].out = "rejected" /\ calls[k].returned = null

\* C8: for a text with words and a source that resolves with a non-empty
\* buffer, the call returns a trajectory with duration > 0 whose tracks F1,
\* F2 and F3 each have at least one point.
C8_NonEmptyTracks ==
    \A k \in 1..Len(calls) :
        (/\ ~NoWords(calls[k].text) /\ IsBuffer(calls[k].audio)
         /\ calls[k].out = "resolved") =>
            /\ FLt(BZero, calls[k].returned.duration)
            /\ \A f \in {"F1", "F2", "F3"} : Len(calls[k].returned.formants[f]) >= 1

\* C9: when the buffer resampled to 8000 Hz is shorter than one window of
\* 512 samples, the call returns the phoneme-mapping trajectory.
C9_ShortSignalFallsBack ==
    \A k \in 1..Len(calls) :
        (/\ IsBuffer(calls[k].audio) /\ calls[k].out = "resolved"
         /\ resample(calls[k].audio.n, calls[k].rate) \in 0..(2 * hopSize - 1)) =>
            calls[k].returned.analysisMethod = "phoneme-mapping"

WellFormed(u) ==
    /\ DOMAIN u.formants = {"F1", "F2", "F3"}
    /\ Len(u.formants.F2) = Len(u.formants.F1)
    /\ Len(u.formants.F3) = Len(u.formants.F1)
    /\ \A i \in 1..Len(u.formants.F1) :
           /\ u.formants.F2[i].t = u.formants.F1[i].t
           /\ u.formants.F3[i].t = u.formants.F1[i].t
           /\ FLe(BZero, u.formants.F1[i].t) /\ FLe(u.formants.F1[i].t, u.duration)
           /\ i > 1 => FLt(u.formants.F1[i - 1].t, u.formants.F1[i].t)
           /\ \A f \in {"F1", "F2", "F3"} : u.formants[f][i].freq >= 0

\* C10: every returned trajectory has exactly the tracks F1, F2, F3 with the
\* same number of points and the same time stamps, strictly increasing and
\* all within [0, duration], and no negative frequency.
C10_TrajectoryShape ==
    \A k \in 1..Len(calls) :
        calls[k].out = "resolved" => WellFormed(calls[k].returned)

TrackNames == <<"F1", "F2", "F3">>

\* C11: in an LPC trajectory, within one track, a frame whose smoothed
\* magnitude is at least that of another frame has an output amplitude at
\* least that of the other frame.
C11_WholeUtteranceNormalization ==
    \A k \in 1..Len(calls) :
        FromAnalyze(k) =>
            LET fr == Frames[<<calls[k].audio, calls[k].rate>>]
                tr == calls[k].result.formants
            IN  \A i \in 1..3 : \A A \in 1..Len(fr), B \in 1..Len(fr) :
                    fr[A].mags[i] >= fr[B].mags[i] =>
                        tr[TrackNames[i]][A].amp >= tr[TrackNames[i]][B].amp

\* C12: when some point of an analyzed utterance has an amplitude above 0
\* before the global normalization, the largest amplitude over all points of
\* the three tracks after normalizeAmplitudes is exactly 1.0 and a point of
\* the frame with the largest smoothed magnitude has it.
C12_MaxIsF1Weight ==
    \A k \in 1..Len(calls) :
        FromAnalyze(k) =>
            LET fr == Frames[<<calls[k].audio, calls[k].rate>>]
                tr == calls[k].result.formants
                loudest == Max({fr[A].mags[i] : A \in 1..Len(fr), i \in 1..3})
            IN  (\E A \in 1..Len(fr), i \in 1..3 : fr[A].amps[i] > 0) =>
                    /\ Max({tr[TrackNames[i]][A].amp : A \in 1..Len(fr), i \in 1..3}) = 1000
                    /\ \E A \in 1..Len(fr), i \in 1..3 :
                           /\ tr[TrackNames[i]][A].amp = 1000
                           /\ loudest \in {fr[A].mags[1], fr[A].mags[2], fr[A].mags[3]}

\* C13: in every returned trajectory, from analyze or from phoneme mapping,
\* the amplitude of every point lies between 0 and the tier weight of its
\* track (F1 1.0, F2 0.7, F3 0.4).
C13_AmplitudeWithinTierWeight ==
    \A k \in 1..Len(calls) :
        calls[k].out = "resolved" =>
            \A f \in {"F1", "F2", "F3"} :
                \A i \in 1..Len(calls[k].returned.formants[f]) :
                    /\ calls[k].returned.formants[f][i].amp >= 0
                    /\ calls[k].returned.formants[f][i].amp <= FORMANT_AMPLITUDES[f]

C13_Witness ==
    /\ \E k \in 1..Len(calls) :
           /\ calls[k].out = "resolved" /\ calls[k].returned.analysisMethod = "lpc"
           /\ \E i \in 1..Len(calls[k].returned.formants.F2) :
                  calls[k].returned.formants.F2[i].amp = FORMANT_AMPLITUDES.F2
    /\ \E k \in 1..Len(calls) :
           /\ calls[k].out = "resolved"
           /\ calls[k].returned.analysisMethod = "phoneme-mapping"
           /\ \E i \in 1..Len(calls[k].returned.formants.F3) :
                  calls[k].returned.formants.F3[i].amp > 300

\* the part of an utterance the idempotence contract compares
Trajectory(u) == [duration |-> u.duration, formants |-> u.formants,
                  analysisMethod |-> u.analysisMethod]

\* C14: two generateFromText calls on the same player, one after the other,
\* with the same text and the same WAV returned by the source, return the
\* same trajectory: same duration, same points in the three tracks, same
\* method tag.
C14_Idempotent ==
    \A a \in 1..Len(calls), b \in 1..Len(calls) :
        (/\ a < b /\ calls[a].text = calls[b].text
         /\ calls[a].wav # null /\ calls[a].wav = calls[b].wav
         /\ calls[a].out = "resolved" /\ calls[b].out = "resolved") =>
            Trajectory(calls[a].returned) = Trajectory(calls[b].returned)

Mapped == pm.stage \in {"phonemes", "trajectory"}
SIL == [phoneme |-> "SIL", duration |-> D006]
NonEmpty(w) == w # <<>>
WordPhonemes(w) ==
    IF w \in DOMAIN WORD_PRONUNCIATIONS THEN Units(WORD_PRONUNCIATIONS[w])
    ELSE wordToPhonemes(w)
RECURSIVE Joined(_, _)
Joined(ws, k) ==
    IF k > Len(ws) THEN <<>>
    ELSE WordPhonemes(ws[k]) \o (IF k < Len(ws) THEN <<SIL>> ELSE <<>>) \o Joined(ws, k + 1)

\* C15: for a text with n >= 1 words, textToPhonemes returns the phonemes of
\* the words in order with exactly one SIL unit of 0.06 s between two
\* consecutive words, so n - 1 SIL units and none before the first or after
\* the last word, whatever the white space around the words and the tokens
\* emptied by the removal of punctuation.
C15_OneSilenceBetweenWords ==
    LET ws == SelectSeq(pm.words, NonEmpty)
    IN  (Mapped /\ Len(ws) >= 1) =>
            /\ pm.phonemes = Joined(ws, 1)
            /\ Cardinality({k \in 1..Len(pm.phonemes) : pm.phonemes[k] = SIL}) = Len(ws) - 1
            /\ pm.phonemes # <<>> =>
                   pm.phonemes[1] # SIL /\ pm.phonemes[Len(pm.phonemes)] # SIL

\* the durations of phonemes 1..k added up, in milliseconds
RECURSIVE MillisUpTo(_, _)
MillisUpTo(phonemes, k) ==
    IF k = 0 THEN 0 ELSE MillisUpTo(phonemes, k - 1) + FMillis(phonemes[k].duration)

\* C16: the duration phonemesToTrajectory returns is the sum of the phoneme
\* durations plus 0.04 s; the first target is at time 0, the target of each
\* phoneme at 0.02 s plus the durations before it plus half its own, the
\* last target at the total duration, and target times strictly increase
\* (times compared to the millisecond).
C16_DurationAndTargetTimes ==
    pm.stage = "trajectory" =>
        LET n == Len(pm.phonemes)
        IN  /\ FMillis(pm.trajectory.duration) = MillisUpTo(pm.phonemes, n) + 40
            /\ Len(pm.targets) = n + 2
            /\ pm.targets[1].time = BZero
            /\ \A k \in 1..n :
                   2 * FMillis(pm.targets[k + 1].time) =
                       2 * (20 + MillisUpTo(pm.phonemes, k - 1)) + FMillis(pm.phonemes[k].duration)
            /\ FMillis(pm.targets[n + 2].time) = FMillis(pm.trajectory.duration)
            /\ \A k \in 1..(n + 1) : FLt(pm.targets[k].time, pm.targets[k + 1].time)

\* a rule of n letters applies to word at position p, and its phoneme
HasRule(word, p, n) ==
    /\ p + n - 1 <= Len(word)
    /\ IF n = 1 THEN word[p] \in DOMAIN LETTER_TO_PHONEME
       ELSE SubSeq(word, p, p + n - 1) \in DOMAIN DIGRAPH_TO_PHONEME
RulePhoneme(word, p, n) ==
    IF n = 1 THEN LETTER_TO_PHONEME[word[p]]
    ELSE DIGRAPH_TO_PHONEME[SubSeq(word, p, p + n - 1)]
RECURSIVE ByRules(_, _, _)
ByRules(word, scan, j) ==
    IF j > Len(scan) THEN <<>>
    ELSE (IF HasRule(word, scan[j].at, scan[j].len)
          THEN <<Unit(RulePhoneme(word, scan[j].at, scan[j].len))>> ELSE <<>>)
         \o ByRules(word, scan, j + 1)

\* C17: a word that is in WORD_PRONUNCIATIONS yields exactly its dictionary
\* phonemes; any other word is scanned from left to right, each step
\* consuming the longest rule that matches at its position (three letters,
\* then two, then one), the consumed spans follow one another from the
\* first to the last character, and there are at most word.length steps.
C17_DictionaryThenLongestMatch ==
    /\ pm.stage # "threw"
    /\ Mapped =>
           \A k \in 1..Len(pm.words) :
               LET word == pm.words[k]
                   scan == pm.scans[k]
               IN  IF word \in DOMAIN WORD_PRONUNCIATIONS
                   THEN pm.resolved[k] = Units(WORD_PRONUNCIATIONS[word])
                   ELSE /\ pm.resolved[k] = ByRules(word, scan, 1)
                        /\ Len(scan) <= Len(word)
                        /\ word # <<>> =>
                               /\ scan[1].at = 1
                               /\ scan[Len(scan)].at + scan[Len(scan)].len = Len(word) + 1
                        /\ \A j \in 1..Len(scan) :
                               /\ j > 1 => scan[j].at = scan[j - 1].at + scan[j - 1].len
                               /\ scan[j].len \in 1..3
                               /\ \A n \in 2..3 :
                                      HasRule(word, scan[j].at, n) => scan[j].len >= n
                               /\ scan[j].len > 1 => HasRule(word, scan[j].at, scan[j].len)

Unvoiced == {"P", "T", "K", "F", "TH", "S", "SH", "CH", "HH"}

\* C18: in phonemesToTrajectory the target of an unvoiced consonant or of
\* SIL has amplitude 0, the target of every other phoneme has amplitude 1
\* and the (F1, F2, F3) of PHONEME_FORMANTS, and the first and the last point
\* of each of the three tracks have amplitude 0.
C18_TargetAmplitudes ==
    pm.stage = "trajectory" =>
        /\ \A k \in 1..Len(pm.phonemes) :
               LET ph == pm.phonemes[k].phoneme
                   tg == pm.targets[k + 1]
               IN  IF ph \in Unvoiced \cup {"SIL"} THEN tg.amp = 0
                   ELSE /\ tg.amp = 1000
                        /\ <<tg.f1, tg.f2, tg.f3>> = PHONEME_FORMANTS[ph]
        /\ \A f \in {"F1", "F2", "F3"} :
               LET track == pm.trajectory.formants[f]
               IN  track # <<>> /\ track[1].amp = 0 /\ track[Len(track)].amp = 0

C18_Witness ==
    /\ pm.stage = "trajectory"
    /\ \E k \in 1..Len(pm.phonemes) :
           pm.phonemes[k].phoneme \in Unvoiced /\ pm.targets[k + 1].amp = 0
    /\ \E k \in 1..Len(pm.phonemes) : pm.phonemes[k].phoneme = "SIL"
    /\ \E k \in 1..Len(pm.phonemes) :
           pm.phonemes[k].phoneme = "AY" /\ pm.targets[k + 1].amp = 1000
    /\ \E i \in 1..Len(pm.trajectory.formants.F1) : pm.trajectory.formants.F1[i].amp > 900

Between(x, a, b) == (a <= x /\ x <= b) \/ (b <= x /\ x <= a)
\* the indices j with targets[j].time <= t < targets[j + 1].time
Surrounding(targets, t) ==
    {j \in 1..(Len(targets) - 1) : FLe(targets[j].time, t) /\ FLt(t, targets[j + 1].time)}

\* C19: the fallback trajectory has one sample at t = i * 10 ms for each i in
\* 0..ceil(duration / 10 ms); each sample is interpolated between the one
\* pair of consecutive targets with prev.time <= t < next.time, its
\* frequencies and its unweighted amplitude lie between the values of these
\* two targets, and equal those of prev when t = prev.time.
C19_SampledBetweenSurroundingTargets ==
    pm.stage = "trajectory" =>
        /\ Len(pm.points) = FCeil(FDiv(pm.trajectory.duration, D001)) + 1
        /\ \A k \in 1..Len(pm.points) :
               LET pt == pm.points[k]
                   prev == pm.pairs[k][1]
                   next == pm.pairs[k][2]
               IN  /\ pt.t = FMulInt(D001, k - 1)
                   /\ Cardinality(Surrounding(pm.targets, pt.t)) = 1
                   /\ \A j \in Surrounding(pm.targets, pt.t) :
                          prev = pm.targets[j] /\ next = pm.targets[j + 1]
                   /\ Between(pt.f1, prev.f1, next.f1) /\ Between(pt.f2, prev.f2, next.f2)
                   /\ Between(pt.f3, prev.f3, next.f3) /\ Between(pt.amp, prev.amp, next.amp)
                   /\ pt.t = prev.time =>
                          /\ <<pt.f1, pt.f2, pt.f3>> = <<prev.f1, prev.f2, prev.f3>>
                          /\ pt.amp = prev.amp

\* C20: computeEigenvalues returns for every matrix; it makes at most 50 QR
\* steps between two deflations, on reaching 50 it appends the diagonal
\* entries of the remaining block as real eigenvalues, and the list it
\* returns has exactly n entries.
C20_EigenvaluesTerminate ==
    /\ <>(qr.pc = "returned")
    /\ [](qr.iter <= maxIter)
    /\ [](qr.pc = "returned" => Len(qr.eigenvalues) = qr.n)
    /\ [][(qr.m > 0 /\ qr.iter >= maxIter) =>
              /\ qr'.m = 0
              /\ Len(qr'.eigenvalues) = Len(qr.eigenvalues) + qr.m
              /\ \A i \in 1..qr.m :
                     qr'.eigenvalues[Len(qr.eigenvalues) + i] = Real(i - 1)]_vars

C20_Witness ==
    /\ qr.pc = "returned" /\ qr.n = MaxN /\ qr.iter = maxIter
    /\ Len(qr.eigenvalues) = MaxN
    /\ qr.eigenvalues[1].imag = "0" /\ qr.eigenvalues[MaxN] = Real(1)

\* C21: the matrix findPolynomialRoots builds from [1, a1, ..., an] has the
\* characteristic polynomial z^n + a1*z^(n-1) + ... + an; for n = 2 its trace
\* is -a1 and its determinant a2; and for z^2 - z + 0.34 the solver returns
\* the conjugate pair 0.5 +/- 0.3i.
C21_CompanionOfPredictionPolynomial ==
    pr.pc \in {"built", "returned"} /\ pr.companion # <<>> =>
        LET n == Len(pr.coeffs) - 1
            a == [k \in 1..n |-> pr.coeffs[k + 1]]
        IN  /\ CharPoly(pr.companion) = a
            /\ n = 2 => /\ Trace(pr.companion) = QNeg(a[1])
                        /\ Det(pr.companion) = a[2]
            /\ (pr.pc = "returned" /\ pr.coeffs = <<QOne, QInt(-1), Q(34, 100)>>) =>
                   pr.roots = <<Complex(Q(1, 2), Q(9, 100), 1), Complex(Q(1, 2), Q(9, 100), -1)>>

\* C22: for every r, levinsonDurbin returns p + 1 coefficients with
\* coeffs[0] = 1 and a gain >= 0; when r[0] < 1e-10 the gain is 0 and the
\* coefficients are [1, 0, ..., 0] and no round of the recursion has run; and
\* when the running error e becomes <= 0 the recursion stops at that order
\* and the gain is sqrt(max(e, 0)).
C22_LevinsonResultShape ==
    /\ ld.pc = "returned" =>
           /\ Len(ld.a) = ld.p + 1
           /\ ld.a[1] = QOne
           /\ ld.gain # NaN /\ QLe(QZero, ld.gain.squared)
           /\ Below1em10Of(ld.r[1], QOne) =>
                  /\ ld.gain = Sqrt(QZero)
                  /\ \A j \in 2..(ld.p + 1) : ld.a[j] = QZero
                  /\ ld.errors = <<>>
           /\ \A k \in 1..Len(ld.errors) :
                  QLe(ld.errors[k], QZero) =>
                      /\ k = Len(ld.errors)
                      /\ \A j \in (k + 2)..(ld.p + 1) : ld.a[j] = QZero
                      /\ ld.gain = Sqrt(QMax(ld.errors[k], QZero))
    /\ ld.pc = "loop" => \A k \in 1..Len(ld.errors) : QLt(QZero, ld.errors[k])

\* a recursion that stopped early on a negative error has returned
C22_Witness ==
    /\ ld.pc = "returned" /\ ld.p = 3
    /\ Len(ld.errors) = 2 /\ QLt(ld.errors[2], QZero)
    /\ ld.gain = Sqrt(QZero)

\* the symmetric Toeplitz matrix with entries r[|i - j|], of size k
Toeplitz(r, k) == [i \in 1..k |-> [j \in 1..k |-> r[Magnitude(i - j) + 1]]]

\* r[0..p] is positive definite: every leading principal minor of its
\* Toeplitz matrix is positive (Sylvester's criterion)
PositiveDefinite(r) == \A k \in 1..Len(r) : QLt(QZero, Det(Toeplitz(r, k)))

Tolerance == Q(1, 1000000)

ValidFormant(root) ==
    /\ root.imagPositive
    /\ root.freq > 90 /\ root.freq < 4000
    /\ root.bandwidth > 0 /\ root.bandwidth < 600

\* C24: coeffsToFormants returns its survivors in ascending order of
\* frequency, each one a root of the frame with imaginary part > 0.001,
\* frequency inside (90, 4000) and bandwidth inside (0, 600); and in analyze
\* track F(i+1) is updated from survivor i (i = 0, 1, 2) alone, whatever
\* survivors follow the third.
C24_SurvivorsSortedAndSlotted ==
    /\ [](an.pc = "smooth" =>
             /\ \A i \in 1..(Len(an.formants) - 1) : an.formants[i].freq <= an.formants[i + 1].freq
             /\ \A i \in 1..Len(an.formants) :
                    /\ \E k \in 1..Len(an.roots) : an.roots[k] = an.formants[i]
                    /\ ValidFormant(an.formants[i]))
    /\ [][(an.pc = "smooth" /\ an'.pc = "frame") =>
             \A i \in 1..3 : i <= Len(an.formants) =>
                 /\ an'.prevFreqs[i] = (7 * an.prevFreqs[i] + 3 * an.formants[i].freq) \div 10
                 /\ an'.prevMags[i] = (7 * an.prevMags[i] + 3 * an.formants[i].magnitude) \div 10]_vars

\* a frame whose roots came in descending order and left four survivors has
\* been smoothed
C24_Witness ==
    /\ an.pc = "frame" /\ an.hop = 2
    /\ Len(an.formants) = 4
    /\ an.roots[1].freq > an.roots[2].freq
    /\ an.prevFreqs # <<500, 1500, 2500>>

\* C25: in a frame where slot i has no candidate, prevFreqs[i] stays and
\* prevMags[i] is multiplied by 0.8; in the same frame a slot that has a
\* candidate is smoothed towards it as usual; and the frame still pushes its
\* point, so a run returns one point per hop on every track.
C25_MissingSlotDecays ==
    /\ [][(an.pc = "smooth" /\ an'.pc # "smooth" /\ Len(an.formants) < 3) =>
             /\ an'.pc = "frame" /\ an'.hop = an.hop + 1
             /\ Len(an'.points) = Len(an.points) + 1
             /\ \A i \in 1..3 :
                    IF i > Len(an.formants)
                    THEN /\ an'.prevFreqs[i] = an.prevFreqs[i]
                         /\ an'.prevMags[i] = (8 * an.prevMags[i]) \div 10
                    ELSE /\ an'.prevFreqs[i] =
                                (7 * an.prevFreqs[i] + 3 * an.formants[i].freq) \div 10
                         /\ an'.prevMags[i] =
                                (7 * an.prevMags[i] + 3 * an.formants[i].magnitude) \div 10]_vars
    /\ [](an.pc = "returned" =>
             \A name \in {"F1", "F2", "F3"} : Len(an.returned[name]) = an.numHops)

\* the second frame of a run had one survivor only: F1 moved, F2 and F3 kept
\* their frequency and F2's magnitude decayed from a nonzero value
C25_Witness ==
    /\ an.pc = "frame" /\ an.hop = 2
    /\ Len(an.formants) = 1
    /\ an.points[2].freqs[2] = an.points[1].freqs[2]
    /\ an.points[1].mags[2] > 0
    /\ an.points[2].mags[2] = (8 * an.points[1].mags[2]) \div 10
    /\ an.points[2].freqs[1] # an.points[1].freqs[1]

\* C26: every run of analyze enters its frame loop with prevFreqs =
\* {500, 1500, 2500} and prevMags = {0, 0, 0}, and a run returns the same
\* trajectory as an earlier run on the same analyzer that got the same frames.
C26_NoSmoothingLeak ==
    /\ (an.pc = "frame" /\ an.hop = 0) =>
           /\ an.prevFreqs = <<500, 1500, 2500>>
           /\ an.prevMags = <<0, 0, 0>>
    /\ (an.pc = "returned" /\ an.earlier # null /\ an.earlier.input = an.input) =>
           an.returned = an.earlier.returned

\* the second run on an analyzer returned, for the same two frames as the
\* first run, which had ended with smoothing state other than the initial one
C26_Witness ==
    /\ an.pc = "returned" /\ an.earlier # null
    /\ an.earlier.input = an.input /\ Len(an.input) = 2
    /\ an.prevFreqs # <<500, 1500, 2500>>
    /\ an.returned.F1[1].amp > 0

\* C27: the object a completed generateFromText call returned is never
\* modified afterwards, whatever later calls do: utteranceData only changes
\* by being set to the object a call returns at that step, and the earlier
\* object keeps its points, duration and method tag.
C27_ReturnedObjectIsStable ==
    [][/\ \A k \in 1..Len(calls) :
              calls[k].out = "resolved" => calls'[k].returned = calls[k].returned
       /\ player'.utteranceData # player.utteranceData =>
              \E j \in 1..Len(calls') :
                  /\ j > Len(calls) \/ calls[j].out = "pending"
                  /\ calls'[j].out = "resolved"
                  /\ player'.utteranceData = calls'[j].returned]_vars

\* two calls have completed, the later one with another utterance than the
\* analysed one the earlier call returned
C27_Witness ==
    /\ Len(calls) = 2
    /\ calls[1].out = "resolved" /\ calls[2].out = "resolved"
    /\ calls[1].returned.analysisMethod = "lpc"
    /\ Len(calls[1].returned.formants.F1) > 0
    /\ calls[2].returned # calls[1].returned
    /\ player.utteranceData = calls[2].returned

\* C28: whatever byte array meSpeak.speak returns, synthesize rejects or
\* resolves with a buffer of at least one sample; it never resolves with a
\* zero-length buffer.
C28_NeverResolvesEmpty ==
    /\ wp.pc = "resolved" => wp.out.n > 0
    /\ wp.pc = "rejected" => wp.out = rejected

\* C29: parseWavToFloat32 terminates on every byte array: each round of the
\* chunk loop that does not leave the loop moves offset forward, negative
\* chunk sizes included, and synthesize settles.
C29_ChunkScanTerminates ==
    /\ [][(wp.pc = "scan" /\ wp'.pc = "scan") => wp'.offset > wp.offset]_vars
    /\ <>(wp.pc \in {"new", "resolved", "rejected"})

\* C30: for every text, textToPhonemes and textToTrajectory return without
\* throwing, also for words that are keys the lookup objects inherit, so the
\* phoneme fallback cannot raise.
C30_PhonemeFallbackIsTotal ==
    /\ pm.stage # "threw"
    /\ pm.stage = "trajectory" => pm.trajectory # null

C32_TranscriptOfCurrentUtterance ==
    player.utteranceData # null =>
        player.currentText = player.utteranceData.transcript

C37_TracksAscending ==
    \A k \in 1..Len(an.points) :
        /\ an.points[k].freqs[1] <= an.points[k].freqs[2]
        /\ an.points[k].freqs[2] <= an.points[k].freqs[3]

\* C39: once the promise of TTSCapture.init is rejected, initialization
\* does nothing more: loadVoice is not called, no polling timer is armed and
\* isReady() stays false; and loadVoice is called at most once per capture,
\* however often init() is called.
C39_InitOutcomeIsFinal ==
    /\ [][tts.initPromise = "rejected" =>
             /\ tts'.voice = "loading" => tts.voice = "loading"
             /\ tts'.poll => tts.poll
             /\ ~isReady(tts')]_vars
    /\ [][tts.voice # "idle" => tts'.voice # "idle"]_vars
    /\ [][tts'.voice = "loading" => tts.voice \in {"idle", "loading"}]_vars

\* C34: the interface keeps the listening order of an utterance: Hear
\* Original can be clicked (it is enabled and no promise job is queued) only
\* when the sinewave of the stored utterance has been played, Play Sinewave
\* Again only when its original has been revealed, and in the states 'revealed' and 'replay' hasHeardOriginal is
\* true, in every interleaving of the generate and play handlers.
C34_ListeningOrder ==
    /\ (Idle /\ ~ui.revealOriginalDisabled) => ae.sineAt = ResolvedCount
    /\ (Idle /\ ~ui.replaySinewaveDisabled) => ae.revealAt = ResolvedCount
    /\ ui.state \in {"revealed", "replay"} => ui.hasHeardOriginal

\* C35: when the stored utterance has captured audio (the LPC path),
\* playOriginal plays it through the AudioEngine and does not reject; the
\* Web Speech path is taken only without captured audio.
C35_CapturedOriginalPlays ==
    ae.original # null =>
        /\ ae.original.captured =>
               (ae.original.path = "buffer" /\ ae.original.out # "rejected")
        /\ ae.original.path = "webspeech" => ~ae.original.captured

\* C36: the engine reports the end of a playback only for the playback it
\* currently holds, and isPlaying is true from the start of a playback until
\* the end timer of that playback fires: the timer of a stopped or
\* superseded playback changes nothing.
C36_EndOfCurrentPlaybackOnly ==
    /\ []((ae.current # 0 /\ ae.current \in ae.timers) => ae.isPlaying)
    /\ [][\A p \in ae.timers \ ae'.timers : p = ae.current]_vars

\* the gain of a formant at a point of its trajectory, in thousandths
GainAt(g, point) ==
    IF g.mode = "trajectory" THEN point.amp * g.level
    ELSE IF g.mode = "ramp" THEN 1000 * g.level
    ELSE 0

\* C38: the gain of the oscillator of formant f is 0 when f is muted and the
\* amplitude its trajectory schedules when f is not, never above the tier
\* weight of f, during a playback and in every later playback, whatever
\* setFormantEnabled calls are made and whenever.
C38_GainIsZeroOrTrajectory ==
    \A f \in Formants :
        ae.oscillatorGains[f] # null =>
            \A i \in 1..Len(ae.formantsData[f]) :
                /\ GainAt(ae.oscillatorGains[f], ae.formantsData[f][i]) =
                       IF ae.formantMuted[f] THEN 0 ELSE ae.formantsData[f][i].amp
                /\ GainAt(ae.oscillatorGains[f], ae.formantsData[f][i]) <=
                       FORMANT_AMPLITUDES[f]
====
